---- MODULE Spec2Model ----
(***************************************************************************)
(* deconz-homekit: the device registry (AccessoryManager), the device and  *)
(* service adapters, the event-receive loop and the local command path.    *)
(*                                                                         *)
(* Conventions                                                             *)
(*  - A Go string that is only compared is a TLA+ string; a device unique  *)
(*    identifier, which uniqueIdToHomeKitId takes apart, is a sequence of  *)
(*    one-character strings.                                               *)
(*  - An ObjectMap / ExtendedObjectMap is a record: "has" is the set of    *)
(*    keys whose entry is not nil, the other fields are the values.        *)
(*  - A nil *time.Time is the empty sequence, a set one is <<t>>.          *)
(*  - Time is counted in ticks of half a second.                           *)
(***************************************************************************)
EXTENDS Integers, Sequences, FiniteSets, TLC

\* ------------------------------------------------------------------ bounds
\* the clock stops at MaxTime ticks
MaxTime == 2

\* ------------------------------------------------------- program constants
\* time.Second, in ticks
Second == 2
\* characteristic.NewColorTemperature starts at its minimum, 140 mired
DefaultColorTemperature == 140

\* ------------------------------------------------ deconz.ExtendedObjectMap
\* the object with no entry
EmptyObject ==
    [has |-> {}, on |-> FALSE, bri |-> 0, ct |-> 0, open |-> FALSE,
     lowbattery |-> FALSE, water |-> FALSE, buttonevent |-> 0, battery |-> 0]

\* obj[key] != nil
Has(obj, key) == key \in obj.has

\* obj[key].Value.(bool); the caller must know the entry exists (see Deref)
ValueToBool(obj, key) == obj[key]

\* int(obj[key].Value.(float64)): truncation toward zero; the values of the
\* model are whole numbers
ValueToInt(obj, key) == obj[key]

\* a variant of ValueToPercent without math.Round: int(value * 100.0 / 255.0)
ValueToPercentTruncated(obj, key) == (100 * obj[key]) \div 255

\* int(math.Round(value * 100.0 / 255.0)), value >= 0: round half up
ValueToPercent(obj, key) == (2 * 100 * obj[key] + 255) \div (2 * 255)

\* reading obj[key].Value of an absent entry dereferences a nil pointer
Deref(obj, key) == ~Has(obj, key)

\* ------------------------------------------------------- deconz.DeviceType
DimmableLightDevice == "Dimmable light"
ColorTemperatureLightDevice == "Color temperature light"
PresenceSensorDevice == "ZHAPresence"
OpenCloseSensorDevice == "ZHAOpenClose"
OnOffOutputDevice == "On/Off output"
OnOffPlugInUnitDevice == "On/Off plug-in unit"
SmartPlugDevice == "Smart plug"
OnOffSwitchDevice == "On/Off switch"
OnOffLightDevice == "On/Off light"
OnOffLightSwitchDevice == "On/Off light switch"
SwitchDevice == "ZHASwitch"
WaterDevice == "ZHAWater"
DimmablePlugInUnitDevice == "Dimmable plug-in unit"
\* two of the types addSubdevice has no case for
TemperatureDevice == "ZHATemperature"
ColorLightDevice == "Color light"

\* service.TypeLightbulb, service.TypeOutlet and the sensor services
TypeLightbulb == "Lightbulb"
TypeOutlet == "Outlet"
TypeContactSensor == "ContactSensor"
TypeLeakSensor == "LeakSensor"
TypeMotionSensor == "MotionSensor"
TypeStatelessProgrammableSwitch == "StatelessProgrammableSwitch"

\* ------------------------------------------------------------- helper.go
\* boolToInt
boolToInt(b) == IF b THEN 1 ELSE 0

HexDigits ==
    [c \in {"0", "1", "2", "3", "4", "5", "6", "7", "8", "9",
            "a", "b", "c", "d", "e", "f", "A", "B", "C", "D", "E", "F"} |->
       CASE c = "0" -> 0 [] c = "1" -> 1 [] c = "2" -> 2 [] c = "3" -> 3
         [] c = "4" -> 4 [] c = "5" -> 5 [] c = "6" -> 6 [] c = "7" -> 7
         [] c = "8" -> 8 [] c = "9" -> 9
         [] c \in {"a", "A"} -> 10 [] c \in {"b", "B"} -> 11
         [] c \in {"c", "C"} -> 12 [] c \in {"d", "D"} -> 13
         [] c \in {"e", "E"} -> 14 [] c \in {"f", "F"} -> 15]

\* strings.ReplaceAll(s, ch, "")
RECURSIVE ReplaceAll(_, _)
ReplaceAll(s, ch) ==
    IF s = <<>> THEN <<>>
    ELSE IF Head(s) = ch THEN ReplaceAll(Tail(s), ch)
         ELSE <<Head(s)>> \o ReplaceAll(Tail(s), ch)

\* a variant of ScanHex that scans the leading decimal digits only
RECURSIVE ScanHexDecimal(_)
ScanHexDecimal(s) ==
    IF s = <<>> \/ Head(s) \notin {"0", "1", "2", "3", "4", "5", "6", "7", "8", "9"}
    THEN <<>>
    ELSE <<HexDigits[Head(s)]>> \o ScanHexDecimal(Tail(s))

\* big.Int.SetString(s, 16) scans the leading hexadecimal digits of s; the
\* result is the sequence of their values, most significant first
RECURSIVE ScanHex(_)
ScanHex(s) ==
    IF s = <<>> \/ Head(s) \notin DOMAIN HexDigits THEN <<>>
    ELSE <<HexDigits[Head(s)]>> \o ScanHex(Tail(s))

RECURSIVE StripZeros(_)
StripZeros(ds) ==
    IF ds # <<>> /\ Head(ds) = 0 THEN StripZeros(Tail(ds)) ELSE ds

\* a variant of Uint64 that keeps the 16 most significant digits
Uint64Leading(ds) ==
    StripZeros(IF Len(ds) > 16 THEN SubSeq(ds, 1, 16) ELSE ds)

\* big.Int.Uint64: the low 64 bits, that is the last 16 hexadecimal digits;
\* the number is kept as its digits without leading zeros
Uint64(ds) ==
    StripZeros(IF Len(ds) > 16 THEN SubSeq(ds, Len(ds) - 15, Len(ds)) ELSE ds)

uniqueIdToHomeKitId(id) ==
    Uint64(ScanHex(ReplaceAll(ReplaceAll(id, ":"), "-")))

\* ------------------------------------------------------- helper/math.go
(***************************************************************************)
(* 360 / 65535 and 65535 / 360 are quotients of untyped integer constants: *)
(* Go evaluates them as integer divisions before the conversion to the     *)
(* type of the other operand.  A float64 that is a whole number is kept as *)
(* that number; degrees are whole numbers.                                 *)
(***************************************************************************)
\* RawToDeg(raw uint16) float64: float64((360 / 65535) * raw), the product
\* in uint16
RawToDeg(raw) == ((360 \div 65535) * raw) % 65536

\* DegToRaw(deg float64) uint16: uint16(math.Round((65535 / 360) * deg)),
\* for 0 <= deg <= 360
DegToRaw(deg) == (65535 \div 360) * deg

\* DecToRaw(dec int) uint8: uint8(float64(dec) * 255.0 / 100.0), the
\* conversion to uint8 drops the fraction; for 0 <= dec <= 100
DecToRaw(dec) == (dec * 255) \div 100

\* -------------------------------------------------------- deconz/light.go
\* a variant of SetLightBrightness that divides the percentage by 100 before
\* it multiplies
SetLightBrightnessDividing(brightness) ==
    LET value == (brightness \div 100) * 255
    IN [On |-> <<value > 0>>,
        Brightness |-> IF value > 0 THEN <<value>> ELSE <<>>,
        ColorTemperature |-> <<>>]

\* ApiClient.SetLightBrightness(id, brightness): the LightState it sends,
\* a nil field being <<>>.  brightness is an int, so brightness * 255.0 /
\* 100.0 is a product and a quotient of ints, and math.Round gets a whole
\* number; for 0 <= brightness <= 100 the value fits a uint8.
SetLightBrightness(brightness) ==
    LET value == (brightness * 255) \div 100
    IN [On |-> <<value > 0>>,
        Brightness |-> IF value > 0 THEN <<value>> ELSE <<>>,
        ColorTemperature |-> <<>>]

\* ------------------------------------------------------------- Go maps
EmptyMap == [k \in {} |-> TRUE]

\* m[k] = v
Put(m, k, v) == [x \in DOMAIN m \cup {k} |-> IF x = k THEN v ELSE m[x]]

\* maps.Copy(dst, src)
Copy(dst, src) ==
    [x \in DOMAIN dst \cup DOMAIN src |-> IF x \in DOMAIN src THEN src[x] ELSE dst[x]]

\* ------------------------------------------- service adapters (the heap)
(***************************************************************************)
(* One record shape holds every adapter type; "type" names the Go struct   *)
(* and the fields the struct does not have keep the values given here.     *)
(* A characteristic pointer is <<>> when nil and <<value>> when set.       *)
(***************************************************************************)
NoService ==
    [type |-> "", ID |-> "", service |-> "",
     On |-> <<>>, Brightness |-> <<>>, ColorTemperature |-> <<>>,
     CtMin |-> <<>>, CtMax |-> <<>>, lastChange |-> <<>>,
     ContactSensorState |-> 0, LeakDetected |-> 0, MotionDetected |-> FALSE,
     lowBatteryCharacteristic |-> <<>>, batteryLevelCharacteristic |-> <<>>,
     services |-> EmptyMap, configs |-> EmptyMap]

\* the result of a call that may panic
Ok(s) == [panic |-> FALSE, s |-> s]
Panic(s) == [panic |-> TRUE, s |-> s]

\* ----------------------------------------------------------- Light (light.go)
\* a variant of the suppression test that also holds at lastChange +
\* time.Second: !time.Now().After(ignoreUntil)
IgnoredInclusive(light, now) ==
    /\ light.lastChange # <<>>
    /\ now <= light.lastChange[1] + Second

\* the suppression test of Light.UpdateState: lastChange is set and
\* time.Now() is before lastChange + time.Second
Ignored(light, now) ==
    /\ light.lastChange # <<>>
    /\ now < light.lastChange[1] + Second

\* a variant of Light.UpdateState that takes the payload for the whole
\* state: an enabled characteristic whose field is absent is set to the zero
\* value of the field
LightUpdateStateWhole(light, state, now) ==
    IF Ignored(light, now) THEN light
    ELSE [light EXCEPT
            !.On = IF light.On # <<>> THEN <<Has(state, "on") /\ state.on>> ELSE @,
            !.Brightness = IF light.Brightness # <<>>
                           THEN <<IF Has(state, "bri") THEN ValueToPercent(state, "bri") ELSE 0>>
                           ELSE @,
            !.ColorTemperature = IF Has(state, "ct") /\ light.ColorTemperature # <<>>
                                 THEN <<ValueToInt(state, "ct")>> ELSE @]

\* Light.UpdateState
LightUpdateState(light, state, now) ==
    IF Ignored(light, now) THEN light
    ELSE LET l1 == IF Has(state, "on") /\ light.On # <<>>
                   THEN [light EXCEPT !.On = <<ValueToBool(state, "on")>>]
                   ELSE light
             l2 == IF Has(state, "bri") /\ light.Brightness # <<>>
                   THEN [l1 EXCEPT !.Brightness = <<ValueToPercent(state, "bri")>>]
                   ELSE l1
             l3 == IF Has(state, "ct") /\ light.ColorTemperature # <<>>
                   THEN [l2 EXCEPT !.ColorTemperature = <<ValueToInt(state, "ct")>>]
                   ELSE l2
         IN l3

\* Light.UpdateConfig
LightUpdateConfig(light, config) == light

\* Light.updateChange
updateChange(light, now) == [light EXCEPT !.lastChange = <<now>>]

\* a variant of the end of a command in which lastChange is one variable of
\* the package and not a field of the light
RecordChangeAll(heap, ref, now) ==
    [r \in DOMAIN heap |->
        IF heap[r].type = "Light" THEN updateChange(heap[r], now) ELSE heap[r]]

\* light.updateChange() at the end of SetOn, SetBrightness and
\* SetColorTemperature of the light ref: the heap after it
RecordChange(heap, ref, now) == [heap EXCEPT ![ref] = updateChange(heap[ref], now)]

\* NewLight. It also registers the light by device.addDeviceService; the
\* light is a pointer, so the constructors below register it once they have
\* completed it, which gives the same device.
NewLight(config, serviceType) ==
    [NoService EXCEPT !.type = "Light", !.ID = config.UniqueId,
                      !.service = serviceType]

\* Light.enableOn: characteristic.NewOn() is false
enableOn(light) == [light EXCEPT !.On = <<FALSE>>]

\* Light.enableBrightness: characteristic.NewBrightness() is 0
enableBrightness(light) == [light EXCEPT !.Brightness = <<0>>]

\* Light.enableColorTemperature; details is the answer of client.GetLight:
\* [err, CtMin, CtMax], a bound being <<>> when the gateway gives none
enableColorTemperature(light, details) ==
    LET l1 == [light EXCEPT !.ColorTemperature = <<DefaultColorTemperature>>]
    IN IF details.err THEN l1
       ELSE [l1 EXCEPT !.CtMin = details.CtMin, !.CtMax = details.CtMax]

\* ------------------------------------ OpenCloseSensor (sensor_open_close.go)
\* OpenCloseSensor.UpdateState
OpenCloseUpdateState(sensor, state) ==
    IF Deref(state, "open") THEN Panic(sensor)
    ELSE LET s1 == [sensor EXCEPT !.ContactSensorState =
                        IF ValueToBool(state, "open") THEN 1 ELSE 0]
         IN Ok(IF Has(state, "lowbattery") /\ sensor.lowBatteryCharacteristic # <<>>
               THEN [s1 EXCEPT !.lowBatteryCharacteristic =
                         <<boolToInt(ValueToBool(state, "lowbattery"))>>]
               ELSE s1)

\* OpenCloseSensor.UpdateConfig
OpenCloseUpdateConfig(sensor, config) ==
    IF Has(config, "battery") /\ sensor.batteryLevelCharacteristic # <<>>
    THEN [sensor EXCEPT !.batteryLevelCharacteristic = <<ValueToInt(config, "battery")>>]
    ELSE sensor

\* the sensor NewOpenCloseSensor builds before it applies the snapshot
OpenCloseSensorOf(config) ==
    [NoService EXCEPT
       !.type = "OpenCloseSensor", !.service = TypeContactSensor,
       !.lowBatteryCharacteristic =
           IF Has(config.State, "lowbattery") THEN <<0>> ELSE <<>>,
       !.batteryLevelCharacteristic =
           IF Has(config.Config, "battery") THEN <<0>> ELSE <<>>]

\* ------------------------------------------------ WaterSensor (part_002)
\* WaterSensor.UpdateState(state, config)
WaterUpdateState(sensor, state, config) ==
    IF Deref(state, "water") THEN Panic(sensor)
    ELSE LET s1 == [sensor EXCEPT !.LeakDetected = boolToInt(ValueToBool(state, "water"))]
             s2 == IF Has(state, "lowbattery") /\ sensor.lowBatteryCharacteristic # <<>>
                   THEN [s1 EXCEPT !.lowBatteryCharacteristic =
                             <<boolToInt(ValueToBool(state, "lowbattery"))>>]
                   ELSE s1
         IN Ok(IF Has(config, "battery") /\ sensor.batteryLevelCharacteristic # <<>>
               THEN [s2 EXCEPT !.batteryLevelCharacteristic =
                         <<ValueToInt(config, "battery")>>]
               ELSE s2)

\* the sensor NewWaterSensor builds before it applies the snapshot
WaterSensorOf(config) ==
    [NoService EXCEPT
       !.type = "WaterSensor", !.service = TypeLeakSensor,
       !.lowBatteryCharacteristic =
           IF Has(config.State, "lowbattery") THEN <<0>> ELSE <<>>,
       !.batteryLevelCharacteristic =
           IF Has(config.Config, "battery") THEN <<0>> ELSE <<>>]

\* ------------------------------------- device_configuration.go, the switch
ButtonSinglePress == "SINGLE_PRESS"
ButtonDoublePress == "DOUBLE_PRESS"
ButtonLongPress == "LONG_PRESS"

\* characteristic.ProgrammableSwitchEventSinglePress, ...DoublePress, ...LongPress
ProgrammableSwitchEventSinglePress == 0
ProgrammableSwitchEventDoublePress == 1
ProgrammableSwitchEventLongPress == 2

(***************************************************************************)
(* An event id is the decimal text of a number and is kept as that number. *)
(* SplitEventId cuts off the last three characters: the prefix of n is     *)
(* n \div 1000, where 0 stands for the empty prefix of a three-digit id,   *)
(* and an id of fewer than three characters (n < 100) is a slice out of    *)
(* range.                                                                  *)
(***************************************************************************)
SplitPanics(event) == event < 100
SplitEventId(event) == <<event \div 1000, event % 1000>>

\* the HomeKit value of a press type, <<>> for a value the switch ignores
PressValue(event) ==
    CASE event = ButtonSinglePress -> <<ProgrammableSwitchEventSinglePress>>
      [] event = ButtonDoublePress -> <<ProgrammableSwitchEventDoublePress>>
      [] event = ButtonLongPress -> <<ProgrammableSwitchEventLongPress>>
      [] OTHER -> <<>>

\* a variant of UpdateState that sets the press on every button service of
\* the switch
SwitchUpdateStateAll(sensor, state) ==
    IF state = <<>> \/ ~Has(state[1], "buttonevent") THEN Ok(sensor)
    ELSE LET event == ValueToInt(state[1], "buttonevent")
             deviceId == SplitEventId(event)[1]
             EventMap == IF deviceId \in DOMAIN sensor.configs
                         THEN sensor.configs[deviceId].EventMap ELSE EmptyMap
             press == IF event \in DOMAIN EventMap
                      THEN PressValue(EventMap[event]) ELSE <<>>
         IN IF SplitPanics(event) THEN Panic(sensor)
            ELSE IF press = <<>> THEN Ok(sensor)
            ELSE Ok([sensor EXCEPT
                       !.services = [b \in DOMAIN sensor.services |->
                           [sensor.services[b] EXCEPT !.ProgrammableSwitchEvent = press]]])

\* a variant of UpdateState whose switch statement has a default case: a
\* code the event map does not hold is a single press of its button
SwitchUpdateStateDefault(sensor, state) ==
    IF state = <<>> \/ ~Has(state[1], "buttonevent") THEN Ok(sensor)
    ELSE LET event == ValueToInt(state[1], "buttonevent")
             deviceId == SplitEventId(event)[1]
             EventMap == IF deviceId \in DOMAIN sensor.configs
                         THEN sensor.configs[deviceId].EventMap ELSE EmptyMap
             press == IF event \in DOMAIN EventMap /\ PressValue(EventMap[event]) # <<>>
                      THEN PressValue(EventMap[event])
                      ELSE <<ProgrammableSwitchEventSinglePress>>
         IN IF SplitPanics(event) THEN Panic(sensor)
            ELSE IF deviceId \notin DOMAIN sensor.services THEN Panic(sensor)
            ELSE Ok([sensor EXCEPT
                       !.services[deviceId].ProgrammableSwitchEvent = press])

\* SwitchDevice.UpdateState(state, _); state is <<>> for nil
SwitchUpdateState(sensor, state) ==
    IF state = <<>> \/ ~Has(state[1], "buttonevent") THEN Ok(sensor)
    ELSE LET event == ValueToInt(state[1], "buttonevent")
             deviceId == SplitEventId(event)[1]
             EventMap == IF deviceId \in DOMAIN sensor.configs
                         THEN sensor.configs[deviceId].EventMap ELSE EmptyMap
             press == IF event \in DOMAIN EventMap
                      THEN PressValue(EventMap[event]) ELSE <<>>
         IN IF SplitPanics(event) THEN Panic(sensor)
            ELSE IF press = <<>> THEN Ok(sensor)
            ELSE IF deviceId \notin DOMAIN sensor.services THEN Panic(sensor)
            ELSE Ok([sensor EXCEPT
                       !.services[deviceId].ProgrammableSwitchEvent = press])

\* a variant of appendButtonState without the test slices.Contains
appendButtonStateAlways(enabledButtonStates, id) == Append(enabledButtonStates, id)

\* appendButtonState of addButton: id is appended unless the list holds it
appendButtonState(enabledButtonStates, id) ==
    IF \E n \in DOMAIN enabledButtonStates : enabledButtonStates[n] = id
    THEN enabledButtonStates
    ELSE Append(enabledButtonStates, id)

RECURSIVE RangeValues(_, _, _)
\* the loop of addButton over the values of the event map, for the entries
\* keys that the range has not yielded yet.  The order of a range over a map
\* is not fixed; the list is built for one order.
RangeValues(EventMap, keys, enabledButtonStates) ==
    IF keys = {} THEN enabledButtonStates
    ELSE LET k == CHOOSE x \in keys : TRUE
         IN RangeValues(EventMap, keys \ {k},
                IF PressValue(EventMap[k]) = <<>> THEN enabledButtonStates
                ELSE appendButtonState(enabledButtonStates, PressValue(EventMap[k])[1]))

\* the list of press types addButton enables for an event map
EnabledButtonStates(EventMap) == RangeValues(EventMap, DOMAIN EventMap, <<>>)

\* a variant of addButton that takes the suffix of the sample event id, its
\* last three digits, for the button number
addButtonBySuffix(sensor, config) ==
    IF DOMAIN config.EventMap = {} THEN Panic(sensor)
    ELSE LET someEventId == CHOOSE k \in DOMAIN config.EventMap : TRUE
             buttonNumber == SplitEventId(someEventId)[2]
             newButton == [ValidVals |-> EnabledButtonStates(config.EventMap),
                           ServiceLabelIndex |-> buttonNumber,
                           ProgrammableSwitchEvent |-> <<>>]
         IN IF SplitPanics(someEventId) THEN Panic(sensor)
            ELSE Ok([sensor EXCEPT
                       !.services = Put(sensor.services, buttonNumber, newButton),
                       !.configs = Put(sensor.configs, buttonNumber, config)])

\* SwitchDevice.addButton. The sample event id is the first key the map
\* iteration yields; the configurations of the model give every code of a
\* button the same prefix, so that the button number does not depend on it.
addButton(sensor, config) ==
    IF DOMAIN config.EventMap = {} THEN Panic(sensor)
    ELSE LET someEventId == CHOOSE k \in DOMAIN config.EventMap : TRUE
             buttonNumber == SplitEventId(someEventId)[1]
             newButton == [ValidVals |-> EnabledButtonStates(config.EventMap),
                           ServiceLabelIndex |-> buttonNumber,
                           ProgrammableSwitchEvent |-> <<>>]
         IN IF SplitPanics(someEventId) THEN Panic(sensor)
            ELSE Ok([sensor EXCEPT
                       !.services = Put(sensor.services, buttonNumber, newButton),
                       !.configs = Put(sensor.configs, buttonNumber, config)])

RECURSIVE addButtons(_, _)
\* the loop of NewSwitch over deviceConfig.Buttons
addButtons(r, Buttons) ==
    IF Buttons = <<>> \/ r.panic THEN r
    ELSE addButtons(addButton(r.s, Head(Buttons)), Tail(Buttons))

\* ------------------------------------------------------ Device (device.go)
(***************************************************************************)
(* A Device under construction is [ID, Accessory, Services, heap, panic]:  *)
(* Services maps a subdevice identifier to the reference of its adapter,   *)
(* heap holds the adapters built so far, Accessory.Ss lists the services   *)
(* added to the HomeKit accessory.  The reference of an adapter is         *)
(* <<device index, subdevice index>> of the snapshot entry it was built    *)
(* for, which stands for the Go pointer.                                   *)
(***************************************************************************)

\* Device.addDeviceService, and the store of the adapter it registers
addDeviceService(d, ref, id, s) ==
    [d EXCEPT !.Services = Put(d.Services, id, ref),
              !.Accessory.Ss = Append(d.Accessory.Ss, <<ref, s.service>>),
              !.heap = Put(d.heap, ref, s)]

\* the result of a constructor: err is the error it returned
Built(d, err) == [d |-> d, err |-> err]

\* a variant of NewOnOffLight that leaves the light as enableOn made it
NewOnOffLightUnapplied(d, ref, config, now) ==
    Built(addDeviceService(d, ref, config.UniqueId,
                           enableOn(NewLight(config, TypeLightbulb))), FALSE)

\* Device.NewOnOffLight
NewOnOffLight(d, ref, config, now) ==
    LET light == enableOn(NewLight(config, TypeLightbulb))
    IN Built(addDeviceService(d, ref, config.UniqueId,
                              LightUpdateState(light, config.State, now)), FALSE)

\* Device.NewDimmableLight
NewDimmableLight(d, ref, config, now) ==
    LET light == enableBrightness(enableOn(NewLight(config, TypeLightbulb)))
    IN Built(addDeviceService(d, ref, config.UniqueId,
                              LightUpdateState(light, config.State, now)), FALSE)

\* client.GetLight(id): the answer of the gateway, an error when it has none
GetLight(input, id) ==
    IF id \in DOMAIN input.lights THEN input.lights[id]
    ELSE [err |-> TRUE, CtMin |-> <<>>, CtMax |-> <<>>]

\* Device.NewColorTemperatureLight
NewColorTemperatureLight(d, ref, config, now, input) ==
    LET light == enableColorTemperature(
                     enableBrightness(enableOn(NewLight(config, TypeLightbulb))),
                     GetLight(input, config.UniqueId))
    IN Built(addDeviceService(d, ref, config.UniqueId,
                              LightUpdateState(light, config.State, now)), FALSE)

\* Device.NewOnOffPlugDevice
NewOnOffPlugDevice(d, ref, config, now) ==
    LET plug == enableOn(NewLight(config, TypeOutlet))
    IN Built(addDeviceService(d, ref, config.UniqueId,
                              LightUpdateState(plug, config.State, now)), FALSE)

\* Device.NewOpenCloseSensor
NewOpenCloseSensor(d, ref, config) ==
    LET r == OpenCloseUpdateState(OpenCloseSensorOf(config), config.State)
    IN IF r.panic THEN Built([d EXCEPT !.panic = TRUE], FALSE)
       ELSE Built(addDeviceService(d, ref, config.UniqueId,
                                   OpenCloseUpdateConfig(r.s, config.Config)), FALSE)

\* Device.NewWaterSensor
NewWaterSensor(d, ref, config) ==
    LET r == WaterUpdateState(WaterSensorOf(config), config.State, config.Config)
    IN IF r.panic THEN Built([d EXCEPT !.panic = TRUE], FALSE)
       ELSE Built(addDeviceService(d, ref, config.UniqueId, r.s), FALSE)

\* client.GetSensor(id)
GetSensor(input, id) ==
    IF id \in DOMAIN input.sensors THEN input.sensors[id]
    ELSE [err |-> TRUE, ModelId |-> ""]

\* a variant of NewSwitch without the check that the model has a press
\* configuration: the lookup of a missing model gives a configuration
\* without buttons and the switch is stored
NewSwitchUnchecked(d, ref, config, input) ==
    LET sensorInfo == GetSensor(input, config.UniqueId)
        sensor == [NoService EXCEPT !.type = "SwitchDevice"]
    IN IF sensorInfo.err THEN Built(d, TRUE)
       ELSE Built([d EXCEPT !.Services = Put(d.Services, config.UniqueId, ref),
                            !.heap = Put(d.heap, ref, sensor)], FALSE)

\* a variant of NewSwitch that initializes the switch with the state of the
\* snapshot: sensor.UpdateState(config.State, config.Config)
NewSwitchApplying(d, ref, config, input) ==
    LET sensorInfo == GetSensor(input, config.UniqueId)
        sensor == [NoService EXCEPT !.type = "SwitchDevice"]
    IN IF sensorInfo.err THEN Built(d, TRUE)
       ELSE IF sensorInfo.ModelId \notin DOMAIN input.deviceConfigs THEN Built(d, TRUE)
       ELSE LET r == addButtons(Ok(sensor), input.deviceConfigs[sensorInfo.ModelId].Buttons)
                r2 == SwitchUpdateState(r.s, <<config.State>>)
                Ss == [i \in 1..Len(input.deviceConfigs[sensorInfo.ModelId].Buttons) |->
                          <<ref, TypeStatelessProgrammableSwitch>>]
            IN IF r.panic \/ r2.panic THEN Built([d EXCEPT !.panic = TRUE], FALSE)
               ELSE Built([d EXCEPT !.Services = Put(d.Services, config.UniqueId, ref),
                                    !.Accessory.Ss = d.Accessory.Ss \o Ss,
                                    !.heap = Put(d.heap, ref, r2.s)], FALSE)

\* Device.NewSwitch. The buttons are added to the accessory one by one and
\* the switch itself is stored in Services without a service of its own.
NewSwitch(d, ref, config, input) ==
    LET sensorInfo == GetSensor(input, config.UniqueId)
        sensor == [NoService EXCEPT !.type = "SwitchDevice"]
    IN IF sensorInfo.err THEN Built(d, TRUE)
       ELSE IF sensorInfo.ModelId \notin DOMAIN input.deviceConfigs THEN Built(d, TRUE)
       ELSE LET r == addButtons(Ok(sensor), input.deviceConfigs[sensorInfo.ModelId].Buttons)
                r2 == SwitchUpdateState(r.s, <<>>)
                Ss == [i \in 1..Len(input.deviceConfigs[sensorInfo.ModelId].Buttons) |->
                          <<ref, TypeStatelessProgrammableSwitch>>]
            IN IF r.panic \/ r2.panic THEN Built([d EXCEPT !.panic = TRUE], FALSE)
               ELSE Built([d EXCEPT !.Services = Put(d.Services, config.UniqueId, ref),
                                    !.Accessory.Ss = d.Accessory.Ss \o Ss,
                                    !.heap = Put(d.heap, ref, r2.s)], FALSE)

\* Device.NewPresenceSensor: a motion sensor adapter is registered
NewPresenceSensor(d, ref, config) ==
    Built(addDeviceService(d, ref, config.UniqueId,
              [NoService EXCEPT !.type = "PresenceSensor", !.service = TypeMotionSensor]),
          FALSE)

\* addSubdevice
addSubdevice(d, ref, config, now, input) ==
    CASE config.Type = DimmableLightDevice -> NewDimmableLight(d, ref, config, now)
      [] config.Type = ColorTemperatureLightDevice ->
             NewColorTemperatureLight(d, ref, config, now, input)
      [] config.Type = PresenceSensorDevice -> NewPresenceSensor(d, ref, config)
      [] config.Type = OpenCloseSensorDevice -> NewOpenCloseSensor(d, ref, config)
      [] config.Type = OnOffOutputDevice -> NewOnOffPlugDevice(d, ref, config, now)
      [] config.Type = OnOffPlugInUnitDevice -> NewOnOffPlugDevice(d, ref, config, now)
      [] config.Type = SmartPlugDevice -> NewOnOffPlugDevice(d, ref, config, now)
      [] config.Type = OnOffSwitchDevice -> NewOnOffPlugDevice(d, ref, config, now)
      [] config.Type = OnOffLightDevice -> NewOnOffLight(d, ref, config, now)
      [] config.Type = OnOffLightSwitchDevice -> NewOnOffLight(d, ref, config, now)
      [] config.Type = SwitchDevice -> NewSwitch(d, ref, config, input)
      [] config.Type = WaterDevice -> NewWaterSensor(d, ref, config)
      [] config.Type = DimmablePlugInUnitDevice -> NewDimmableLight(d, ref, config, now)
      [] OTHER -> Built(d, TRUE)

RECURSIVE addSubdevicesReturning(_, _, _, _, _, _)
\* a variant of the loop of NewDevice that ends at the first subdevice whose
\* addSubdevice returns an error
addSubdevicesReturning(d, i, j, config, now, input) ==
    IF j > Len(config.Subdevices) \/ d.panic THEN d
    ELSE IF addSubdevice(d, <<i, j>>, config.Subdevices[j], now, input).err THEN d
    ELSE addSubdevicesReturning(
             addSubdevice(d, <<i, j>>, config.Subdevices[j], now, input).d,
             i, j + 1, config, now, input)

RECURSIVE addSubdevices(_, _, _, _, _, _)
\* the loop of NewDevice over config.Subdevices, from subdevice j on; an
\* error of addSubdevice is logged and the loop goes on, a panic ends it
addSubdevices(d, i, j, config, now, input) ==
    IF j > Len(config.Subdevices) \/ d.panic THEN d
    ELSE addSubdevices(addSubdevice(d, <<i, j>>, config.Subdevices[j], now, input).d,
                       i, j + 1, config, now, input)

\* a variant of NewDevice without the check of len(d.Services)
NeverNoServices(d) == FALSE

\* the check of NewDevice after the loop: a device without services is an error
NoServicesFound(d) == Cardinality(DOMAIN d.Services) = 0

\* the end of NewDevice: "no services found" when the device has no service
CheckServices(d) == Built(d, NoServicesFound(d))

\* NewDevice, for the i-th device of the snapshot
NewDevice(i, config, now, input) ==
    CheckServices(addSubdevices(
        [ID |-> config.UniqueId,
         Accessory |-> [Id |-> uniqueIdToHomeKitId(config.UniqueId), Ss |-> <<>>],
         Services |-> EmptyMap, heap |-> EmptyMap, panic |-> FALSE],
        i, 1, config, now, input))

\* --------------------------------- AccessoryManager (accessory_manager.go)
\* deconz.RessourceType and deconz.EventType (ws.go)
SensorsRessource == "sensors"
ScenesRessource == "scenes"
LightsRessource == "lights"
GroupsRessource == "groups"
AddedEvent == "added"
ChangedEvent == "changed"
DeletedEvent == "deleted"
SceneEvent == "scene-called"

\* what NewAccessoryManager keeps of a built device
DeviceOf(d) == [ID |-> d.ID, Accessory |-> d.Accessory, Services |-> d.Services]

\* the body of the first loop of NewAccessoryManager; b is what NewDevice
\* returned for config: a device whose NewDevice returns an error is skipped
AddDevice(r, config, b) ==
    IF b.d.panic THEN [r EXCEPT !.panic = TRUE]
    ELSE IF b.err THEN r
    ELSE [r EXCEPT !.Devices = Put(r.Devices, config.UniqueId, DeviceOf(b.d)),
                   !.heap = Copy(r.heap, b.d.heap)]

RECURSIVE CreateDevices(_, _, _, _, _)
\* the first loop of NewAccessoryManager, from device i on
CreateDevices(r, i, devices, now, input) ==
    IF i > Len(devices) \/ r.panic THEN r
    ELSE CreateDevices(AddDevice(r, devices[i], NewDevice(i, devices[i], now, input)),
                       i + 1, devices, now, input)

\* a variant of the second loop that assigns the Services of a device to
\* am.Services where the loop copies them into it
CollectServicesAssigning(Devices, todo) ==
    IF todo = {} THEN EmptyMap
    ELSE Devices[CHOOSE x \in todo : TRUE].Services

RECURSIVE CollectServices(_, _)
\* the second loop of NewAccessoryManager: maps.Copy of every device's
\* Services, here over the devices still to copy
CollectServices(Devices, todo) ==
    IF todo = {} THEN EmptyMap
    ELSE LET k == CHOOSE x \in todo : TRUE
         IN Copy(CollectServices(Devices, todo \ {k}), Devices[k].Services)

\* the manager after the second loop, r being the result of the first
WithServices(r) ==
    [panic |-> r.panic, Devices |-> r.Devices, heap |-> r.heap,
     Services |-> CollectServices(r.Devices, DOMAIN r.Devices)]

\* NewAccessoryManager: [panic, Devices, Services, heap]
NewAccessoryManager(devices, now, input) ==
    WithServices(CreateDevices([panic |-> FALSE, Devices |-> EmptyMap, heap |-> EmptyMap],
                               1, devices, now, input))

\* a variant of the filters without the test of the event type
FilteredByResource(msg) == msg.r \notin {LightsRessource, SensorsRessource}

\* the two filters of ProcessUpdate: a message passes when its resource is
\* lights or sensors and its event is changed
Filtered(msg) ==
    \/ msg.r \notin {LightsRessource, SensorsRessource}
    \/ msg.e # ChangedEvent

\* service.UpdateState(msg.State); service.UpdateConfig(msg.Config) on the
\* adapter s; a nil payload is <<>>.  WaterSensor and SwitchDevice have the
\* two-argument UpdateState(state, config) of the DeviceService interface of
\* device.go: it is called where ProcessUpdate calls UpdateState.
UpdateService(s, msg, now) ==
    CASE s.type = "Light" ->
           LET s1 == IF msg.state # <<>> THEN LightUpdateState(s, msg.state[1], now) ELSE s
           IN Ok(IF msg.config # <<>> THEN LightUpdateConfig(s1, msg.config[1]) ELSE s1)
      [] s.type = "OpenCloseSensor" ->
           LET r == IF msg.state # <<>> THEN OpenCloseUpdateState(s, msg.state[1]) ELSE Ok(s)
           IN IF r.panic \/ msg.config = <<>> THEN r
              ELSE Ok(OpenCloseUpdateConfig(r.s, msg.config[1]))
      [] s.type = "WaterSensor" ->
           IF msg.state = <<>> THEN Ok(s)
           ELSE IF msg.config = <<>> THEN Panic(s)
           ELSE WaterUpdateState(s, msg.state[1], msg.config[1])
      [] s.type = "SwitchDevice" ->
           IF msg.state = <<>> THEN Ok(s) ELSE SwitchUpdateState(s, msg.state)
      [] OTHER -> Ok(s)

\* a variant of the read that enters a nil service for a key the map does
\* not hold
LookupInserting(Services, id) ==
    [Services |-> IF id \in DOMAIN Services THEN Services ELSE Put(Services, id, <<>>),
     service |-> IF id \in DOMAIN Services /\ Services[id] # <<>>
                 THEN <<Services[id]>> ELSE <<>>]

\* am.Services[id]: the map after the read and the service read, <<>> for
\* the nil a Go map yields for a key it does not hold
Lookup(Services, id) ==
    [Services |-> Services,
     service |-> IF id \in DOMAIN Services THEN <<Services[id]>> ELSE <<>>]

\* the result of ProcessUpdate: the lookup table and the heap after the call
Updated(panic, Services, heap) == [panic |-> panic, Services |-> Services, s |-> heap]

\* a variant of the update without the test service != nil: the call of
\* UpdateState on the nil service panics
UpdateFoundUnchecked(l, heap, msg, now) ==
    IF l.service = <<>> THEN Updated(TRUE, l.Services, heap)
    ELSE (LET r == UpdateService(heap[l.service[1]], msg, now)
          IN Updated(r.panic, l.Services, [heap EXCEPT ![l.service[1]] = r.s]))

\* the body of "if service := am.Services[id]; service != nil", l being
\* what the lookup gave
UpdateFound(l, heap, msg, now) ==
    IF l.service = <<>> THEN Updated(FALSE, l.Services, heap)
    ELSE \* r: the adapter after UpdateState and UpdateConfig
         (LET r == UpdateService(heap[l.service[1]], msg, now)
          IN Updated(r.panic, l.Services, [heap EXCEPT ![l.service[1]] = r.s]))

\* AccessoryManager.ProcessUpdate: the lookup table and the heap after the
\* call, or a panic
ProcessUpdate(am, heap, msg, now) ==
    IF Filtered(msg) THEN Updated(FALSE, am.Services, heap)
    ELSE IF msg.uniqueid = <<>> THEN Updated(TRUE, am.Services, heap)
    ELSE UpdateFound(Lookup(am.Services, msg.uniqueid[1]), heap, msg, now)

\* ------------------------------------------------------------ the inputs
\* a state or config object with the given entries
OnObject(on) == [EmptyObject EXCEPT !.has = {"on"}, !.on = on]
BriObject(bri) == [EmptyObject EXCEPT !.has = {"bri"}, !.bri = bri]
LightObject(on, bri, ct) ==
    [EmptyObject EXCEPT !.has = {"on", "bri", "ct"}, !.on = on, !.bri = bri, !.ct = ct]
OpenObject(open, lowbattery) ==
    [EmptyObject EXCEPT !.has = {"open", "lowbattery"}, !.open = open,
                        !.lowbattery = lowbattery]
BatteryObject(battery) == [EmptyObject EXCEPT !.has = {"battery"}, !.battery = battery]

\* deconz.Subdevice and deconz.Device
Subdevice(type, uniqueId, state, config) ==
    [Type |-> type, UniqueId |-> uniqueId, State |-> state, Config |-> config]
Device(uniqueId, subdevices) == [UniqueId |-> uniqueId, Subdevices |-> subdevices]

\* the unique identifiers of the two devices of a snapshot
DeviceId1 == <<"0", "0", ":", "1", "a">>
DeviceId2 == <<"0", "0", ":", "1", "b">>

\* what the gateway and the ./devices directory answer during the build
Answers(lights, sensors, deviceConfigs) ==
    [lights |-> lights, sensors |-> sensors, deviceConfigs |-> deviceConfigs]
NoAnswers == Answers(EmptyMap, EmptyMap, EmptyMap)

\* the snapshots of the running system: a device with a plug and a light
\* and a device without subdevices; a color temperature light beside an
\* unsupported subdevice and a device with none supported; a contact sensor
\* behind an unsupported subdevice and a switch whose model has no press
\* configuration
RunInputs ==
    { [devices |-> << Device(DeviceId1, <<Subdevice(OnOffPlugInUnitDevice, "L1",
                                                    OnObject(TRUE), EmptyObject),
                                          Subdevice(OnOffLightDevice, "L2",
                                                    OnObject(FALSE), EmptyObject)>>),
                      Device(DeviceId2, <<>>) >>,
       answers |-> NoAnswers],
      [devices |-> << Device(DeviceId1, <<Subdevice(ColorTemperatureLightDevice, "L1",
                                                    LightObject(TRUE, 255, 300), EmptyObject),
                                          Subdevice(TemperatureDevice, "T1",
                                                    EmptyObject, EmptyObject)>>),
                      Device(DeviceId2, <<Subdevice(TemperatureDevice, "T2",
                                                    EmptyObject, EmptyObject)>>) >>,
       answers |-> Answers("L1" :> [err |-> FALSE, CtMin |-> <<153>>, CtMax |-> <<500>>],
                           EmptyMap, EmptyMap)],
      [devices |-> << Device(DeviceId1, <<Subdevice(ColorLightDevice, "X1",
                                                    OnObject(TRUE), EmptyObject),
                                          Subdevice(OpenCloseSensorDevice, "O1",
                                                    OpenObject(FALSE, FALSE),
                                                    BatteryObject(100))>>),
                      Device(DeviceId2, <<Subdevice(SwitchDevice, "S1",
                                                    EmptyObject, EmptyObject)>>) >>,
       answers |-> Answers(EmptyMap, "S1" :> [err |-> FALSE, ModelId |-> "M9"], EmptyMap)] }

\* the subdevices of the snapshots of BuildInputs, for the identifier uid:
\* lights and plugs, a contact and a leak sensor with and without the field
\* their constructor reads, a switch, and two types addSubdevice has no case
\* for
Subdevices(uid) ==
    { Subdevice(OnOffLightDevice, uid, OnObject(TRUE), EmptyObject),
      Subdevice(DimmableLightDevice, uid, LightObject(TRUE, 128, 0), EmptyObject),
      Subdevice(ColorTemperatureLightDevice, uid, LightObject(FALSE, 255, 300), EmptyObject),
      Subdevice(SmartPlugDevice, uid, OnObject(FALSE), EmptyObject),
      Subdevice(OpenCloseSensorDevice, uid, OpenObject(TRUE, FALSE), BatteryObject(90)),
      Subdevice(OpenCloseSensorDevice, uid,
                [EmptyObject EXCEPT !.has = {"lowbattery"}, !.lowbattery = TRUE],
                EmptyObject),
      Subdevice(WaterDevice, uid, [EmptyObject EXCEPT !.has = {"water"}, !.water = TRUE],
                BatteryObject(70)),
      Subdevice(WaterDevice, uid, EmptyObject, EmptyObject),
      Subdevice(SwitchDevice, uid, EmptyObject, EmptyObject),
      Subdevice(TemperatureDevice, uid, EmptyObject, EmptyObject),
      Subdevice(ColorLightDevice, uid, OnObject(TRUE), EmptyObject) }

\* the subdevice identifiers of the snapshots of BuildInputs
SubdeviceIds == {"A1", "A2", "B1"}

\* the press configuration of a model: a button with two codes and a button
\* with one
TwoButtons ==
    [Buttons |-> << [EventMap |-> (1002 :> ButtonSinglePress) @@ (1003 :> ButtonLongPress)],
                    [EventMap |-> (2002 :> ButtonDoublePress)] >>]

\* the answers of BuildInputs: the gateway and the directory give nothing;
\* they give the details of every light and sensor and the press
\* configuration of the model of the sensors; they give the details and the
\* press configuration of another model than that of the sensors
BuildAnswers ==
    { NoAnswers,
      Answers([id \in SubdeviceIds |-> [err |-> FALSE, CtMin |-> <<153>>, CtMax |-> <<>>]],
              [id \in SubdeviceIds |-> [err |-> FALSE, ModelId |-> "M1"]],
              "M1" :> TwoButtons),
      Answers([id \in SubdeviceIds |-> [err |-> FALSE, CtMin |-> <<153>>, CtMax |-> <<>>]],
              [id \in SubdeviceIds |-> [err |-> FALSE, ModelId |-> "M9"]],
              "M1" :> TwoButtons) }

\* a state object with a button event
ButtonEventObject(c) == [EmptyObject EXCEPT !.has = {"buttonevent"}, !.buttonevent = c]

\* press configurations as generateDeviceConfiguration writes them, a button
\* for each button value with the codes of its actions: a button for 1001
\* and a button for 2003; the two buttons of TwoButtons; one button with the
\* three press types, one of them under two codes, and a second button
PressConfigurations ==
    { [Buttons |-> << [EventMap |-> (1001 :> ButtonSinglePress)],
                      [EventMap |-> (2003 :> ButtonDoublePress)] >>],
      TwoButtons,
      [Buttons |-> << [EventMap |-> (1002 :> ButtonSinglePress) @@ (1003 :> ButtonLongPress)
                                    @@ (1004 :> ButtonDoublePress) @@ (1005 :> ButtonSinglePress)],
                      [EventMap |-> (3003 :> ButtonLongPress) @@ (3001 :> ButtonLongPress)] >>] }

\* the snapshots of the switch: a device with one switch, whose model has
\* one of the press configurations
SwitchInputs ==
    { [devices |-> << Device(DeviceId1, <<Subdevice(SwitchDevice, "S1",
                                                    EmptyObject, EmptyObject)>>),
                      Device(DeviceId2, <<>>) >>,
       answers |-> Answers(EmptyMap, "S1" :> [err |-> FALSE, ModelId |-> "M1"],
                           "M1" :> c)] : c \in PressConfigurations }

\* the values of "buttonevent" the gateway sends: of fewer than three
\* digits, of three digits, and of four digits with and without a button or
\* a press type in the configuration
EventCodes == {0, 7, 99, 100, 999, 1000, 1001, 1002, 1003, 1005, 1999, 2002, 2003, 3001, 4002}

\* the snapshots of the brightness: a device with one dimmable light that is
\* on, for every raw brightness of a uint8
BrightnessInputs ==
    { [devices |-> << Device(DeviceId1,
                             <<Subdevice(DimmableLightDevice, "L1",
                                         [EmptyObject EXCEPT !.has = {"on", "bri"},
                                                             !.on = TRUE, !.bri = r],
                                         EmptyObject)>>),
                      Device(DeviceId2, <<>>) >>,
       answers |-> NoAnswers] : r \in 0..255 }

\* the snapshots of the build: a first device with up to two subdevices and
\* a second with up to one, under each of the answers
BuildInputs ==
    { [devices |-> <<Device(DeviceId1, ss1), Device(DeviceId2, ss2)>>, answers |-> a] :
        ss1 \in {<<>>} \cup {<<x>> : x \in Subdevices("A1")}
                      \cup {<<x, y>> : x \in Subdevices("A1"), y \in Subdevices("A2")},
        ss2 \in {<<>>} \cup {<<x>> : x \in Subdevices("B1")},
        a \in BuildAnswers }

\* deconz.Messsage: the event and resource type, and the optional unique
\* identifier, state and config (<<>> when absent)
Messsage(e, r, uniqueid, state, config) ==
    [e |-> e, r |-> r, uniqueid |-> uniqueid, state |-> state, config |-> config]

\* the messages the gateway sends
Messages ==
    { Messsage(ChangedEvent, LightsRessource, <<"L1">>, <<LightObject(FALSE, 51, 370)>>, <<>>),
      Messsage(ChangedEvent, LightsRessource, <<"L2">>, <<OnObject(TRUE)>>, <<>>),
      Messsage(ChangedEvent, SensorsRessource, <<"O1">>, <<OpenObject(TRUE, TRUE)>>,
               <<BatteryObject(80)>>),
      Messsage(ChangedEvent, LightsRessource, <<"L9">>, <<OnObject(TRUE)>>, <<>>),
      Messsage(AddedEvent, LightsRessource, <<"L1">>, <<OnObject(FALSE)>>, <<>>),
      Messsage(DeletedEvent, SensorsRessource, <<"O1">>, <<OpenObject(TRUE, TRUE)>>,
               <<BatteryObject(80)>>),
      Messsage(ChangedEvent, GroupsRessource, <<"L1">>, <<OnObject(FALSE)>>, <<>>),
      Messsage(SceneEvent, ScenesRessource, <<"L1">>, <<OnObject(FALSE)>>, <<>>),
      Messsage(ChangedEvent, LightsRessource, <<>>, <<OnObject(TRUE)>>, <<>>) }

\* the messages the gateway sends for the switch
ButtonMessages ==
    { Messsage(ChangedEvent, SensorsRessource, <<"S1">>, <<ButtonEventObject(c)>>, <<>>) :
        c \in EventCodes }

\* the messages the gateway sends for the brightness of the light
BrightnessMessages ==
    { Messsage(ChangedEvent, LightsRessource, <<"L1">>, <<BriObject(r)>>, <<>>) :
        r \in {0, 1, 24, 127, 128, 255} }

\* --------------------------------------------------------------- the state
VARIABLES
    input,        \* the device snapshot and the answers of the gateway
    pc,           \* where main is: start, built, events, serving, crashed;
                  \* or where the function run on its own is
    am,           \* the AccessoryManager: [Devices, Services]
    heap,         \* the service adapters, by reference
    accessories,  \* the accessories handed to hap.NewServer
    now,          \* the clock
    processed,    \* the message eventFn returned for last and the time.Now()
                  \* of that call: <<>> or <<[msg, at]>>
    calls,        \* the calls of eventFn (ProcessUpdate) that have not returned
    cmds,         \* the local commands that have not returned
    conv          \* the call of a function run on its own: [fn, param, ret,
                  \* raw], raw being the local variables of one with a loop

vars == <<input, pc, am, heap, accessories, now, processed, calls, cmds, conv>>

\* no conversion function is called
NoCall == [fn |-> "", param |-> <<>>, ret |-> <<>>, raw |-> <<>>]

\* the concurrent local commands the protocol engine delivers
MaxCommands == 1

NoManager == [Devices |-> EmptyMap, Services |-> EmptyMap]

Init ==
    /\ input \in RunInputs
    /\ pc = "start"
    /\ am = NoManager
    /\ heap = EmptyMap
    /\ accessories = <<>>
    /\ now = 0
    /\ processed = <<>>
    /\ calls = <<>>
    /\ cmds = {}
    /\ conv = NoCall

\* time passes
Tick ==
    /\ pc # "crashed"
    /\ now < MaxTime
    /\ now' = now + 1
    /\ UNCHANGED <<conv, input, pc, am, heap, accessories, processed, calls, cmds>>

\* main: am := accessoryManager.NewAccessoryManager(api, devices)
BuildRegistry ==
    /\ pc = "start"
    /\ \E r \in {NewAccessoryManager(input.devices, now, input.answers)} :
          IF r.panic
          THEN pc' = "crashed" /\ UNCHANGED <<am, heap>>
          ELSE /\ pc' = "built"
               /\ am' = [Devices |-> r.Devices, Services |-> r.Services]
               /\ heap' = r.heap
    /\ UNCHANGED <<conv, input, accessories, now, processed, calls, cmds>>

\* main: deconz.NewEventClient(ctx, ..., am.ProcessUpdate) starts the
\* receive loop
NewEventClient ==
    /\ pc = "built"
    /\ pc' = "events"
    /\ UNCHANGED <<conv, input, am, heap, accessories, now, processed, calls, cmds>>

\* the orders in which a range over a map may yield the keys S
Orders(S) ==
    {o \in [1..Cardinality(S) -> S] : \A i, j \in 1..Cardinality(S) : o[i] = o[j] => i = j}

\* AccessoryManager.GetAccessories, for one order of the range over Devices
GetAccessories(Devices, order) == [i \in DOMAIN order |-> Devices[order[i]].Accessory]

\* main: hap.NewServer(storage, b.A, am.GetAccessories()...) and
\* server.ListenAndServe
Serve ==
    /\ pc = "events"
    /\ \E order \in Orders(DOMAIN am.Devices) :
          accessories' = GetAccessories(am.Devices, order)
    /\ pc' = "serving"
    /\ UNCHANGED <<conv, input, am, heap, now, processed, calls, cmds>>

\* a variant of the receive loop that starts eventFn in a goroutine of its
\* own ("go eventFn(eventMsg)") and reads on
AtReadMessageAsync(active) == Len(active) < 2

\* the receive loop is at c.ReadMessage(): eventFn is called synchronously,
\* so the loop comes back to it only when the call has returned
AtReadMessage(active) == active = <<>>

\* the receive loop reads and decodes a message and calls eventFn with it
ReadMessage ==
    /\ pc \in {"events", "serving"}
    /\ AtReadMessage(calls)
    /\ \E m \in Messages : calls' = Append(calls, m)
    /\ UNCHANGED <<conv, input, pc, am, heap, accessories, now, processed, cmds>>

\* a variant of the return of eventFn that leaves the message with the loop,
\* which calls eventFn with it again
RemoveNone(s, i) == s

\* s without its i-th element
Remove(s, i) == SubSeq(s, 1, i - 1) \o SubSeq(s, i + 1, Len(s))

\* a call of eventFn runs AccessoryManager.ProcessUpdate and returns; a
\* panic ends the process
Dispatch ==
    /\ pc \in {"events", "serving"}
    /\ \E i \in 1..Len(calls) :
          \E r \in {ProcessUpdate(am, heap, calls[i], now)} :
             IF r.panic
             THEN pc' = "crashed" /\ UNCHANGED <<am, heap, calls, processed>>
             ELSE /\ pc' = pc
                  /\ am' = [am EXCEPT !.Services = r.Services]
                  /\ heap' = r.s
                  /\ calls' = Remove(calls, i)
                  /\ processed' = <<[msg |-> calls[i], at |-> now]>>
    /\ UNCHANGED <<conv, input, accessories, now, cmds>>

\* the lights whose characteristic c ("On", "Brightness", "ColorTemperature")
\* is enabled: the ones whose callback the protocol engine can call
Lights(c) == {ref \in DOMAIN heap : heap[ref].type = "Light" /\ heap[ref][c] # <<>>}

\* a local command: the light, the method, its argument, whether the gateway
\* call has returned and the error it returned
Command(ref, method, arg, returned, err) ==
    [ref |-> ref, method |-> method, arg |-> arg, returned |-> returned, err |-> err]

\* the protocol engine calls a callback: the command is sent to the gateway
Call(ref, method, arg) ==
    /\ pc = "serving"
    /\ Cardinality(cmds) < MaxCommands
    /\ cmds' = cmds \cup {Command(ref, method, arg, FALSE, FALSE)}
    /\ UNCHANGED <<conv, input, pc, am, heap, accessories, now, processed, calls>>

\* Light.SetOn up to the call of client.SetLightOn
SetOn == \E ref \in Lights("On") : \E on \in {TRUE} : Call(ref, "SetOn", <<on>>)

\* Light.SetBrightness up to the call of client.SetLightBrightness
SetBrightness ==
    \E ref \in Lights("Brightness") : \E v \in {50} : Call(ref, "SetBrightness", <<v>>)

\* Light.SetColorTemperature up to the call of client.SetLightColorTemperature
SetColorTemperature ==
    \E ref \in Lights("ColorTemperature") : \E v \in {300} :
        Call(ref, "SetColorTemperature", <<v>>)

\* the gateway call of a command returns, with or without an error, which
\* is logged
GatewayReturns ==
    /\ pc = "serving"
    /\ \E c \in cmds : \E err \in BOOLEAN :
          /\ ~c.returned
          /\ cmds' = (cmds \ {c}) \cup {[c EXCEPT !.returned = TRUE, !.err = err]}
    /\ UNCHANGED <<conv, input, pc, am, heap, accessories, now, processed, calls>>

\* the end of SetOn, SetBrightness and SetColorTemperature: light.updateChange()
UpdateChange ==
    /\ pc = "serving"
    /\ \E c \in cmds :
          /\ c.returned
          /\ heap' = RecordChange(heap, c.ref, now)
          /\ cmds' = cmds \ {c}
    /\ UNCHANGED <<conv, input, pc, am, accessories, now, processed, calls>>

Next ==
    \/ Tick
    \/ BuildRegistry
    \/ NewEventClient
    \/ Serve
    \/ ReadMessage
    \/ Dispatch
    \/ SetOn
    \/ SetBrightness
    \/ SetColorTemperature
    \/ GatewayReturns
    \/ UpdateChange

Spec == Init /\ [][Next]_vars

\* ------------------------------------------------------------- the build
\* main up to server.ListenAndServe, for the snapshots of BuildInputs
InitBuild ==
    /\ input \in BuildInputs
    /\ pc = "start"
    /\ am = NoManager
    /\ heap = EmptyMap
    /\ accessories = <<>>
    /\ now = 0
    /\ processed = <<>>
    /\ calls = <<>>
    /\ cmds = {}
    /\ conv = NoCall

NextBuild ==
    \/ BuildRegistry
    \/ NewEventClient
    \/ Serve

SpecBuild == InitBuild /\ [][NextBuild]_vars

\* ----------------------------------------------------------- the identities
\* the letters and digits the identifiers of IdentityInputs are written with
IdentityDigits == {"0", "1", "a"}

\* identifiers as the gateway writes them, pairs of lower-case hexadecimal
\* digits separated by colons: of two pairs, and of eight pairs
PairedIds ==
    {<<a, b, ":", c, d>> : a \in IdentityDigits, b \in IdentityDigits,
                           c \in IdentityDigits, d \in IdentityDigits}
    \cup {<<"0", "0", ":", "1", "7", ":", "8", "8", ":", "0", "1", ":",
            "0", "a", ":", "b", "c", ":", "d", "e", ":", a, b>> :
             a \in IdentityDigits, b \in IdentityDigits}

\* identifiers written otherwise: in upper case, without the separator or
\* with a hyphen, without the leading zeros, and of seventeen digits
OtherIds ==
    { <<"0", "0", ":", "1", "A">>, <<"0", "0", "1", "a">>, <<"0", "0", "-", "1", "a">>,
      <<"1", "a">>, <<"0", ":", "1", "a">>,
      <<"0", "1", ":", "0", "0", ":", "1", "7", ":", "8", "8", ":", "0", "1", ":",
        "0", "a", ":", "b", "c", ":", "d", "e", ":", "a", "1">> }

\* the snapshots of two devices with distinct unique identifiers, each with
\* an on/off light
IdentityInputs ==
    { [devices |-> << Device(ids[1], <<Subdevice(OnOffLightDevice, "L1",
                                                  OnObject(TRUE), EmptyObject)>>),
                      Device(ids[2], <<Subdevice(OnOffLightDevice, "L2",
                                                  OnObject(FALSE), EmptyObject)>>) >>,
       answers |-> NoAnswers] :
        ids \in {p \in (PairedIds \cup OtherIds) \X (PairedIds \cup OtherIds) :
                   p[1] # p[2]} }

\* main up to server.ListenAndServe, for the snapshots of IdentityInputs
InitIdentity ==
    /\ input \in IdentityInputs
    /\ pc = "start"
    /\ am = NoManager
    /\ heap = EmptyMap
    /\ accessories = <<>>
    /\ now = 0
    /\ processed = <<>>
    /\ calls = <<>>
    /\ cmds = {}
    /\ conv = NoCall

SpecIdentity == InitIdentity /\ [][NextBuild]_vars

\* ------------------------------------------------------------- the switch
\* main for the snapshots of SwitchInputs, the gateway sending button events
InitSwitch ==
    /\ input \in SwitchInputs
    /\ pc = "start"
    /\ am = NoManager
    /\ heap = EmptyMap
    /\ accessories = <<>>
    /\ now = 0
    /\ processed = <<>>
    /\ calls = <<>>
    /\ cmds = {}
    /\ conv = NoCall

\* the receive loop reads and decodes a button event and calls eventFn
ReadButtonEvent ==
    /\ pc \in {"events", "serving"}
    /\ AtReadMessage(calls)
    /\ \E m \in ButtonMessages : calls' = Append(calls, m)
    /\ UNCHANGED <<conv, input, pc, am, heap, accessories, now, processed, cmds>>

NextSwitch ==
    \/ BuildRegistry
    \/ NewEventClient
    \/ Serve
    \/ ReadButtonEvent
    \/ Dispatch

SpecSwitch == InitSwitch /\ [][NextSwitch]_vars

\* ----------------------------------------------------- inbound brightness
\* main for the snapshots of BrightnessInputs, the gateway sending the
\* brightness of the light
InitInbound ==
    /\ input \in BrightnessInputs
    /\ pc = "start"
    /\ am = NoManager
    /\ heap = EmptyMap
    /\ accessories = <<>>
    /\ now = 0
    /\ processed = <<>>
    /\ calls = <<>>
    /\ cmds = {}
    /\ conv = NoCall

\* the receive loop reads and decodes a brightness message and calls eventFn
ReadBrightness ==
    /\ pc \in {"events", "serving"}
    /\ AtReadMessage(calls)
    /\ \E m \in BrightnessMessages : calls' = Append(calls, m)
    /\ UNCHANGED <<conv, input, pc, am, heap, accessories, now, processed, cmds>>

NextInbound ==
    \/ BuildRegistry
    \/ NewEventClient
    \/ Serve
    \/ ReadBrightness
    \/ Dispatch

SpecInbound == InitInbound /\ [][NextInbound]_vars

\* ------------------------------------------------------- the conversions
\* a call of a conversion function: its name, its parameter, <<>> or its
\* result, and, for a brightness the controller writes back, the raw value
\* the brightness was exposed for
Conversion(fn, param, ret, raw) ==
    [fn |-> fn, param |-> param, ret |-> ret, raw |-> raw]

\* a device identifier of sixteen hexadecimal digits
LongId ==
    <<"0", "0", ":", "1", "7", ":", "8", "8", ":", "0", "1", ":",
      "0", "a", ":", "B", "c", ":", "d", "E", ":", "f", "0">>

\* the sequences of at most n elements of S
SeqsUpTo(S, n) == UNION {[1..k -> S] : k \in 0..n}

\* unique identifiers of hexadecimal digits, colons and hyphens: short ones,
\* and ones of 16 to 20 digits, with an endpoint suffix or without
UniqueIds ==
    SeqsUpTo({"0", "1", "a", "F", ":", "-"}, 3)
    \cup {pre \o LongId \o suf : pre \in SeqsUpTo({"0", "1", "a", "F", ":", "-"}, 2),
                                  suf \in {<<>>, <<"-", "0", "b">>}}

\* the calls of the conversion functions: the hue of every uint16 and of
\* every whole degree, every percentage, every raw brightness of a uint8,
\* the unique identifiers
Conversions ==
    {Conversion("RawToDeg", raw, <<>>, <<>>) : raw \in 0..65535}
    \cup {Conversion("DegToRaw", deg, <<>>, <<>>) : deg \in 0..360}
    \cup {Conversion("DecToRaw", dec, <<>>, <<>>) : dec \in 0..100}
    \cup {Conversion("SetLightBrightness", brightness, <<>>, <<>>) : brightness \in 0..100}
    \cup {Conversion("ValueToPercent", BriObject(r), <<>>, <<>>) : r \in 0..255}
    \cup {Conversion("uniqueIdToHomeKitId", id, <<>>, <<>>) : id \in UniqueIds}

InitConversions ==
    /\ input \in {[devices |-> <<>>, answers |-> NoAnswers]}
    /\ pc = "start"
    /\ am = NoManager
    /\ heap = EmptyMap
    /\ accessories = <<>>
    /\ now = 0
    /\ processed = <<>>
    /\ calls = <<>>
    /\ cmds = {}
    /\ conv \in Conversions

\* the function fn is called and returns ret
Returning(fn, ret) ==
    /\ conv.fn = fn
    /\ conv.ret = <<>>
    /\ conv' = [conv EXCEPT !.ret = <<ret>>]
    /\ UNCHANGED <<input, pc, am, heap, accessories, now, processed, calls, cmds>>

CallRawToDeg == Returning("RawToDeg", RawToDeg(conv.param))
CallDegToRaw == Returning("DegToRaw", DegToRaw(conv.param))
CallDecToRaw == Returning("DecToRaw", DecToRaw(conv.param))
CallSetLightBrightness == Returning("SetLightBrightness", SetLightBrightness(conv.param))
CallValueToPercent == Returning("ValueToPercent", ValueToPercent(conv.param, "bri"))
CallUniqueIdToHomeKitId == Returning("uniqueIdToHomeKitId", uniqueIdToHomeKitId(conv.param))

\* the controller writes the brightness it was shown back: Light.SetBrightness
\* calls client.SetLightBrightness with the percentage exposed for the raw
\* brightness
WriteBack ==
    /\ conv.fn = "ValueToPercent"
    /\ conv.ret # <<>>
    /\ conv' = Conversion("SetLightBrightness", conv.ret[1], <<>>, <<conv.param.bri>>)
    /\ UNCHANGED <<input, pc, am, heap, accessories, now, processed, calls, cmds>>

NextConversions ==
    \/ CallRawToDeg
    \/ CallDegToRaw
    \/ CallDecToRaw
    \/ CallSetLightBrightness
    \/ CallValueToPercent
    \/ CallUniqueIdToHomeKitId
    \/ WriteBack

SpecConversions == InitConversions /\ [][NextConversions]_vars

\* ------------------------------------------- deconz/device.go, GetAllDevices
\* the longest list of identifiers ListDevices answers, beside the list of
\* ten of the scenario
MaxIds == 3

(***************************************************************************)
(* client.Get returns what parseResponse decodes from the body: an error   *)
(* (of http.Get or of the decoder), or a pointer to the decoded value; the *)
(* decoder sets the pointer to nil for the body null and returns no error. *)
(***************************************************************************)
GetFails == [err |-> TRUE, ptr |-> <<>>]
GetNull == [err |-> FALSE, ptr |-> <<>>]
GetReturns(v) == [err |-> FALSE, ptr |-> <<v>>]
GetAnswer(kind, v) ==
    CASE kind = "fails" -> GetFails
      [] kind = "null" -> GetNull
      [] OTHER -> GetReturns(v)

\* the gateway during GetAllDevices: what it answers to ListDevices, and to
\* the k-th call of GetDevice
Gateway(list, device) == [list |-> list, device |-> device]

\* the gateway that answers the identifiers ids, and to GetDevice as kinds
\* tells
GatewayOf(ids, kinds) ==
    Gateway(GetReturns(ids),
            [k \in DOMAIN ids |-> GetAnswer(kinds[k], Device(ids[k], <<>>))])

\* the ten identifiers of the scenario
TenIds ==
    [k \in 1..10 |->
       <<"0", "0", ":", <<"0", "1", "2", "3", "4", "5", "6", "7", "8", "9">>[k]>>]

\* the gateways: ListDevices fails, answers null, or answers up to MaxIds
\* identifiers, GetDevice failing, answering null or answering the device;
\* and ListDevices answers ten identifiers, GetDevice failing or answering
\* the device
FetchInputs ==
    {Gateway(GetFails, <<>>), Gateway(GetNull, <<>>)}
    \cup UNION { {GatewayOf(ids, kinds) :
                     ids \in [1..n -> {DeviceId1, DeviceId2}],
                     kinds \in [1..n -> {"fails", "null", "returns"}]} : n \in 0..MaxIds }
    \cup {GatewayOf(TenIds, kinds) : kinds \in [1..10 -> {"fails", "returns"}]}

\* the local variables of GetAllDevices in its loop: the list that
\* devicesList points to, the position of the range over it, allDevices
FetchLocals(list, i, allDevices) ==
    [devicesList |-> list, i |-> i, allDevices |-> allDevices]

\* a variant of the loop body that appends whatever GetDevice returned
AfterGetDeviceAppending(l, answer) ==
    FetchLocals(l.devicesList, l.i + 1, Append(l.allDevices, answer.ptr))

\* the body of the loop of GetAllDevices, answer being what GetDevice
\* returned: an error is printed and the loop continues, else the pointer is
\* appended
AfterGetDevice(l, answer) ==
    IF answer.err THEN FetchLocals(l.devicesList, l.i + 1, l.allDevices)
    ELSE FetchLocals(l.devicesList, l.i + 1, Append(l.allDevices, answer.ptr))

InitFetch ==
    /\ input \in FetchInputs
    /\ pc = "GetAllDevices"
    /\ am = NoManager
    /\ heap = EmptyMap
    /\ accessories = <<>>
    /\ now = 0
    /\ processed = <<>>
    /\ calls = <<>>
    /\ cmds = {}
    /\ conv = Conversion("GetAllDevices", <<>>, <<>>, <<>>)

\* devicesList, err := ac.ListDevices(): the error is returned with nil; the
\* range over *devicesList dereferences the pointer
CallListDevices ==
    /\ pc = "GetAllDevices"
    /\ IF input.list.err
       THEN /\ pc' = "returned"
            /\ conv' = [conv EXCEPT !.ret = <<[devices |-> <<>>, err |-> TRUE]>>]
       ELSE IF input.list.ptr = <<>>
       THEN pc' = "crashed" /\ UNCHANGED conv
       ELSE /\ pc' = "range"
            /\ conv' = [conv EXCEPT !.raw = <<FetchLocals(input.list.ptr[1], 1, <<>>)>>]
    /\ UNCHANGED <<input, am, heap, accessories, now, processed, calls, cmds>>

\* device, err := ac.GetDevice(deviceId), for the next identifier
CallGetDevice ==
    /\ pc = "range"
    /\ conv.raw[1].i <= Len(conv.raw[1].devicesList)
    /\ conv' = [conv EXCEPT !.raw = <<AfterGetDevice(conv.raw[1], input.device[conv.raw[1].i])>>]
    /\ UNCHANGED <<input, pc, am, heap, accessories, now, processed, calls, cmds>>

\* return allDevices, nil
ReturnAllDevices ==
    /\ pc = "range"
    /\ conv.raw[1].i > Len(conv.raw[1].devicesList)
    /\ pc' = "returned"
    /\ conv' = [conv EXCEPT !.ret = <<[devices |-> conv.raw[1].allDevices, err |-> FALSE]>>]
    /\ UNCHANGED <<input, am, heap, accessories, now, processed, calls, cmds>>

NextFetch ==
    \/ CallListDevices
    \/ CallGetDevice
    \/ ReturnAllDevices

SpecFetch == InitFetch /\ [][NextFetch]_vars

\* ------------------------- device_configuration.go, LoadFromDirectory
\* the most files filepath.Glob finds
MaxFiles == 3

\* the names filepath.Glob returns, in its order, sorted
FileNames == <<"a.json", "b.json", "c.json", "d.json">>

\* a file: os.ReadFile fails; it returns bytes json.Unmarshal fails on; or
\* the bytes decode into a DeviceConfiguration
Unreadable == [read |-> FALSE, config |-> <<>>]
Malformed == [read |-> TRUE, config |-> <<>>]
WellFormed(config) == [read |-> TRUE, config |-> <<config>>]

\* the DeviceConfiguration of the file name for the models: what the
\* descriptor says beside the models is told by the description
DeviceConfiguration(name, models) ==
    [Models |-> models, Description |-> name, Buttons |-> TwoButtons.Buttons]

\* the directories: Glob fails, or finds up to MaxFiles files, each
\* unreadable, malformed, or well-formed and listing up to two models
Directories ==
    {[err |-> TRUE, files |-> <<>>]}
    \cup UNION { {[err |-> FALSE, files |-> files] :
                    files \in {fs \in [1..n -> {Unreadable, Malformed}
                                                \cup {WellFormed(DeviceConfiguration(name, models)) :
                                                        name \in {FileNames[k] : k \in 1..n},
                                                        models \in SeqsUpTo({"M1", "M2"}, 2)}] :
                                 \A k \in 1..n :
                                    fs[k].config # <<>> => fs[k].config[1].Description = FileNames[k]}} :
                 n \in 0..MaxFiles }

RECURSIVE PutModels(_, _, _)
\* the loop over config.Models, from the j-th on: configMap[model] = *config
PutModels(configMap, config, j) ==
    IF j > Len(config.Models) THEN configMap
    ELSE PutModels(Put(configMap, config.Models[j], config), config, j + 1)

\* a variant of the loop body that gives up what was loaded when a file
\* cannot be read or parsed
AfterFileResetting(configMap, file) ==
    IF file.read /\ file.config # <<>> THEN PutModels(configMap, file.config[1], 1)
    ELSE EmptyMap

\* the body of the loop over the files: an error of os.ReadFile or of
\* json.Unmarshal is printed and the file is left out
AfterFile(configMap, file) ==
    IF file.read /\ file.config # <<>> THEN PutModels(configMap, file.config[1], 1)
    ELSE configMap

InitLoad ==
    /\ input \in Directories
    /\ pc = "LoadFromDirectory"
    /\ am = NoManager
    /\ heap = EmptyMap
    /\ accessories = <<>>
    /\ now = 0
    /\ processed = <<>>
    /\ calls = <<>>
    /\ cmds = {}
    /\ conv = Conversion("LoadFromDirectory", <<>>, <<>>, <<>>)

\* files, err := filepath.Glob(dir + "/*.json"): the error is returned with
\* nil
CallGlob ==
    /\ pc = "LoadFromDirectory"
    /\ IF input.err
       THEN /\ pc' = "returned"
            /\ conv' = [conv EXCEPT !.ret = <<[configMap |-> EmptyMap, err |-> TRUE]>>]
       ELSE /\ pc' = "files"
            /\ conv' = [conv EXCEPT !.raw = <<[i |-> 1, configMap |-> EmptyMap]>>]
    /\ UNCHANGED <<input, am, heap, accessories, now, processed, calls, cmds>>

\* the next file is read and parsed
ReadFile ==
    /\ pc = "files"
    /\ conv.raw[1].i <= Len(input.files)
    /\ conv' = [conv EXCEPT !.raw = <<[i |-> conv.raw[1].i + 1,
                                       configMap |-> AfterFile(conv.raw[1].configMap,
                                                               input.files[conv.raw[1].i])]>>]
    /\ UNCHANGED <<input, pc, am, heap, accessories, now, processed, calls, cmds>>

\* return configMap, nil
ReturnConfigMap ==
    /\ pc = "files"
    /\ conv.raw[1].i > Len(input.files)
    /\ pc' = "returned"
    /\ conv' = [conv EXCEPT !.ret = <<[configMap |-> conv.raw[1].configMap, err |-> FALSE]>>]
    /\ UNCHANGED <<input, am, heap, accessories, now, processed, calls, cmds>>

NextLoad ==
    \/ CallGlob
    \/ ReadFile
    \/ ReturnConfigMap

SpecLoad == InitLoad /\ [][NextLoad]_vars

\* --------------------------------------- generateDeviceConfiguration.go
\* the most rows of the map of a device of button_maps.json
MaxRows == 2

\* MapFile.Buttons and MapFile.Actions: the value of a name, 0 for a name
\* the table does not have
ValueOf(table, name) == IF name \in DOMAIN table THEN table[name] ELSE 0

\* the button actions, with their values in button_maps.json
ButtonActions ==
    ("S_BUTTON_ACTION_INITIAL_PRESS" :> 0) @@ ("S_BUTTON_ACTION_HOLD" :> 1)
    @@ ("S_BUTTON_ACTION_SHORT_RELEASED" :> 2) @@ ("S_BUTTON_ACTION_LONG_RELEASED" :> 3)
    @@ ("S_BUTTON_ACTION_DOUBLE_PRESS" :> 4)

\* the tables of buttons: S_BUTTON_1 is 1000 as in button_maps.json, or a
\* value at or below it; S_BUTTON_2 is 2000
ButtonTables ==
    {("S_BUTTON_1" :> v) @@ ("S_BUTTON_2" :> 2000) : v \in {0, 996, 997, 998, 1000}}

\* the rows of the map of a device: button[5] and button[6], the button
\* being one of the table or not
MapRows ==
    {<<b, a>> : b \in {"S_BUTTON_1", "S_BUTTON_2", "S_BUTTON_9"},
                a \in DOMAIN ButtonActions}

\* the files the generator reads: a table of buttons, the table of actions
\* and one device with up to MaxRows rows and no button names
MapFiles ==
    {[Buttons |-> t, Actions |-> ButtonActions, Map |-> rows] :
        t \in ButtonTables, rows \in SeqsUpTo(MapRows, MaxRows)}

\* the switch over button[6]: the press an action is entered as, <<>> for
\* the actions without a case
PressOf(action) ==
    CASE action = "S_BUTTON_ACTION_SHORT_RELEASED" -> <<ButtonSinglePress>>
      [] action = "S_BUTTON_ACTION_DOUBLE_PRESS" -> <<ButtonDoublePress>>
      [] action = "S_BUTTON_ACTION_LONG_RELEASED" -> <<ButtonLongPress>>
      [] OTHER -> <<>>

\* the test of the event code a row is entered under
AboveThreshold(eventId) == eventId > 1000

\* the body of the loop over device.Map, for the row button and the code
\* eventId: the button is created when buttonsMap has none, named by the
\* count of buttons (device.Buttons is nil), and the code is entered in its
\* EventMap when the action has a case
EnterRow(buttonsMap, button, eventId) ==
    IF ~AboveThreshold(eventId) THEN buttonsMap
    ELSE LET created == IF button[1] \in DOMAIN buttonsMap THEN buttonsMap
                        ELSE Put(buttonsMap, button[1],
                                 [Name |-> Cardinality(DOMAIN buttonsMap) + 1,
                                  EventMap |-> EmptyMap])
         IN IF PressOf(button[2]) = <<>> THEN created
            ELSE [created EXCEPT ![button[1]].EventMap =
                      Put(@, eventId, PressOf(button[2])[1])]

InitGenerate ==
    /\ input \in MapFiles
    /\ pc = "generate"
    /\ am = NoManager
    /\ heap = EmptyMap
    /\ accessories = <<>>
    /\ now = 0
    /\ processed = <<>>
    /\ calls = <<>>
    /\ cmds = {}
    /\ conv = Conversion("main", <<>>, <<>>, <<[i |-> 1, buttonsMap |-> EmptyMap]>>)

\* the next row of device.Map
GenerateRow ==
    /\ pc = "generate"
    /\ conv.raw[1].i <= Len(input.Map)
    /\ conv' = [conv EXCEPT !.raw =
          <<[i |-> conv.raw[1].i + 1,
             buttonsMap |-> EnterRow(conv.raw[1].buttonsMap, input.Map[conv.raw[1].i],
                                     ValueOf(input.Buttons, input.Map[conv.raw[1].i][1])
                                       + ValueOf(input.Actions, input.Map[conv.raw[1].i][2]))]>>]
    /\ UNCHANGED <<input, pc, am, heap, accessories, now, processed, calls, cmds>>

\* the buttons with an event are appended to newDeviceConfig.Buttons, in an
\* order of the range over buttonsMap, and the configuration is saved when
\* it has a button
GenerateButtons ==
    /\ pc = "generate"
    /\ conv.raw[1].i > Len(input.Map)
    /\ \E order \in Orders({b \in DOMAIN conv.raw[1].buttonsMap :
                              DOMAIN conv.raw[1].buttonsMap[b].EventMap # {}}) :
          conv' = [conv EXCEPT !.ret =
                      <<[Buttons |-> [k \in DOMAIN order |-> conv.raw[1].buttonsMap[order[k]]],
                         saved |-> order # <<>>]>>]
    /\ pc' = "generated"
    /\ UNCHANGED <<input, am, heap, accessories, now, processed, calls, cmds>>

NextGenerate ==
    \/ GenerateRow
    \/ GenerateButtons

SpecGenerate == InitGenerate /\ [][NextGenerate]_vars

\* ------------------------------------------- deconz/ws.go, the receive loop
\* the most frames the gateway sends
MaxFrames == 3

\* a frame of the websocket: the text of a JSON object that holds a
\* message, or such a text cut short
Encoded(m) == <<"{", m, "}">>
Truncated(m) == <<"{", m>>

\* json.Unmarshal(message, eventMsg): the message of a frame, or an error
Unmarshal(frame) ==
    IF Len(frame) = 3 /\ frame[1] = "{" /\ frame[3] = "}"
    THEN [err |-> FALSE, msg |-> <<frame[2]>>]
    ELSE [err |-> TRUE, msg |-> <<>>]

\* the snapshot of the receive loop: a device with an on/off light
ReceiveInputs ==
    { [devices |-> << Device(DeviceId1, <<Subdevice(OnOffLightDevice, "L1",
                                                    OnObject(FALSE), EmptyObject)>>) >>,
       answers |-> NoAnswers] }

\* the messages the gateway encodes: the light is switched on and off, a
\* scene is called, and the object without fields
ReceiveMessages ==
    { Messsage(ChangedEvent, LightsRessource, <<"L1">>, <<OnObject(TRUE)>>, <<>>),
      Messsage(ChangedEvent, LightsRessource, <<"L1">>, <<OnObject(FALSE)>>, <<>>),
      Messsage(SceneEvent, ScenesRessource, <<>>, <<>>, <<>>),
      Messsage("", "", <<>>, <<>>, <<>>) }

\* the frames the gateway sends
Frames ==
    {Encoded(m) : m \in ReceiveMessages}
    \cup {Truncated(m) : m \in {Messsage(SceneEvent, ScenesRessource, <<>>, <<>>, <<>>)}}

(***************************************************************************)
(* The EventClient and its goroutine: sent are the frames the gateway has  *)
(* written to the connection and read the number of them c.ReadMessage has *)
(* returned; passed are the messages eventFn has been called with; log is  *)
(* the last line the loop has logged; closes counts the close(ec.done)     *)
(* that have been executed, and closed tells that ec.client is closed.     *)
(* The channel made by NewEventClient is the one with closes = 0.  The     *)
(* loop is at c.ReadMessage(), or at the log.Printf of a read error.       *)
(***************************************************************************)
EventClient(sent, read, passed, log, closes, closed) ==
    [sent |-> sent, read |-> read, passed |-> passed, log |-> log,
     closes |-> closes, closed |-> closed, at |-> "ReadMessage"]

\* a variant of the loop body that passes no message on once a frame has
\* failed to decode
AfterFrameOnce(ec, frame) ==
    IF Unmarshal(frame).err \/ ec.log # ""
    THEN EventClient(ec.sent, ec.read + 1, ec.passed, "message unmarshal error",
                     ec.closes, ec.closed)
    ELSE EventClient(ec.sent, ec.read + 1, Append(ec.passed, Unmarshal(frame).msg[1]),
                     ec.log, ec.closes, ec.closed)

\* the body of the receive loop for a frame c.ReadMessage has returned: an
\* error of json.Unmarshal is logged and the loop continues, else eventFn is
\* called with the message
AfterFrame(ec, frame) ==
    IF Unmarshal(frame).err
    THEN EventClient(ec.sent, ec.read + 1, ec.passed, "message unmarshal error",
                     ec.closes, ec.closed)
    ELSE EventClient(ec.sent, ec.read + 1, Append(ec.passed, Unmarshal(frame).msg[1]),
                     ec.log, ec.closes, ec.closed)

InitReceive ==
    /\ input \in ReceiveInputs
    /\ pc = "start"
    /\ am = NoManager
    /\ heap = EmptyMap
    /\ accessories = <<>>
    /\ now = 0
    /\ processed = <<>>
    /\ calls = <<>>
    /\ cmds = {}
    /\ conv = Conversion("NewEventClient", <<>>, <<>>,
                         <<EventClient(<<>>, 0, <<>>, "", 0, FALSE)>>)

\* the gateway writes a frame to the connection
SendFrame ==
    /\ pc \in {"events", "serving"}
    /\ ~conv.raw[1].closed
    /\ Len(conv.raw[1].sent) < MaxFrames
    /\ \E frame \in Frames :
          conv' = [conv EXCEPT !.raw[1].sent = Append(@, frame)]
    /\ UNCHANGED <<input, pc, am, heap, accessories, now, processed, calls, cmds>>

\* c.ReadMessage() returns the next frame and the loop body runs up to the
\* call of eventFn
ReadFrame ==
    /\ pc \in {"events", "serving"}
    /\ AtReadMessage(calls)
    /\ conv.raw[1].at = "ReadMessage"
    /\ ~conv.raw[1].closed
    /\ conv.raw[1].read < Len(conv.raw[1].sent)
    /\ conv' = [conv EXCEPT !.raw[1] = AfterFrame(@, @.sent[@.read + 1])]
    /\ calls' = calls \o SubSeq(conv'.raw[1].passed, Len(conv.raw[1].passed) + 1,
                                Len(conv'.raw[1].passed))
    /\ UNCHANGED <<input, pc, am, heap, accessories, now, processed, cmds>>

\* c.ReadMessage() returns an error, as it does on a closed connection: the
\* error is logged
ReadFails ==
    /\ pc \in {"events", "serving"}
    /\ AtReadMessage(calls)
    /\ conv.raw[1].at = "ReadMessage"
    /\ conv.raw[1].closed
    /\ conv' = [conv EXCEPT !.raw[1].log = "websocket read error", !.raw[1].at = "log"]
    /\ UNCHANGED <<input, pc, am, heap, accessories, now, processed, calls, cmds>>

\* the continue after the read error: the loop is at c.ReadMessage() again
Continue ==
    /\ pc \in {"events", "serving"}
    /\ conv.raw[1].at = "log"
    /\ conv' = [conv EXCEPT !.raw[1].at = "ReadMessage"]
    /\ UNCHANGED <<input, pc, am, heap, accessories, now, processed, calls, cmds>>

\* EventClient.Stop: close(ec.done), which panics on a closed channel, and
\* ec.client.Close()
Stop ==
    /\ pc \in {"events", "serving"}
    /\ IF conv.raw[1].closes > 0
       THEN pc' = "crashed" /\ UNCHANGED conv
       ELSE /\ conv' = [conv EXCEPT !.raw[1].closes = @ + 1, !.raw[1].closed = TRUE]
            /\ pc' = pc
    /\ UNCHANGED <<input, am, heap, accessories, now, processed, calls, cmds>>

NextReceive ==
    \/ BuildRegistry
    \/ NewEventClient
    \/ Serve
    \/ SendFrame
    \/ ReadFrame
    \/ ReadFails
    \/ Continue
    \/ Dispatch
    \/ Stop

SpecReceive == InitReceive /\ [][NextReceive]_vars

\* the goroutine of the receive loop is scheduled: a read that can return
\* returns, and a call of eventFn runs
SpecReceiveFair ==
    /\ SpecReceive
    /\ WF_vars(ReadFrame) /\ WF_vars(ReadFails) /\ WF_vars(Continue) /\ WF_vars(Dispatch)

\* ------------------------------------------------------ the partial updates
\* the snapshot of the partial updates: an on/off light, a dimmable light
\* and a color temperature light, a contact sensor and a leak sensor
PartialInputs ==
    { [devices |-> << Device(DeviceId1,
                             <<Subdevice(OnOffLightDevice, "L1", OnObject(FALSE), EmptyObject),
                               Subdevice(DimmableLightDevice, "L2",
                                         [EmptyObject EXCEPT !.has = {"on", "bri"}, !.bri = 255],
                                         EmptyObject),
                               Subdevice(ColorTemperatureLightDevice, "L3",
                                         LightObject(FALSE, 255, 200), EmptyObject)>>),
                      Device(DeviceId2,
                             <<Subdevice(OpenCloseSensorDevice, "O1", OpenObject(FALSE, FALSE),
                                         BatteryObject(100)),
                               Subdevice(WaterDevice, "W1",
                                         [EmptyObject EXCEPT !.has = {"water", "lowbattery"}],
                                         BatteryObject(100))>>) >>,
       answers |-> Answers("L3" :> [err |-> FALSE, CtMin |-> <<153>>, CtMax |-> <<500>>],
                           EmptyMap, EmptyMap)] }

\* the state of a message for a light: the fields of has, of on, bri, ct
PartialObject(has) ==
    [EmptyObject EXCEPT !.has = has, !.on = TRUE, !.bri = 128, !.ct = 300]

\* the state of a message for a sensor: the fields of has, of open, water,
\* lowbattery
SensorObject(has) ==
    [EmptyObject EXCEPT !.has = has, !.open = TRUE, !.water = TRUE, !.lowbattery = TRUE]

\* the messages of the partial updates of lights: for each light every
\* choice of fields
PartialMessages ==
    { Messsage(ChangedEvent, LightsRessource, <<id>>, <<PartialObject(has)>>, <<>>) :
        id \in {"L1", "L2", "L3"}, has \in (SUBSET {"on", "bri", "ct"}) \ {{}} }

\* the messages of the partial updates of sensors: for each sensor its own
\* field with and without lowbattery, and lowbattery alone
SensorMessages ==
    { Messsage(ChangedEvent, SensorsRessource, <<"O1">>, <<SensorObject(has)>>, config) :
        has \in {{"open"}, {"open", "lowbattery"}, {"lowbattery"}},
        config \in {<<>>, <<BatteryObject(50)>>} }
    \cup { Messsage(ChangedEvent, SensorsRessource, <<"W1">>, <<SensorObject(has)>>,
                    <<BatteryObject(50)>>) :
             has \in {{"water"}, {"water", "lowbattery"}, {"lowbattery"}} }

InitPartial ==
    /\ input \in PartialInputs
    /\ pc = "start"
    /\ am = NoManager
    /\ heap = EmptyMap
    /\ accessories = <<>>
    /\ now = 0
    /\ processed = <<>>
    /\ calls = <<>>
    /\ cmds = {}
    /\ conv = NoCall

\* the receive loop reads and decodes a partial update and calls eventFn
ReadPartial ==
    /\ pc \in {"events", "serving"}
    /\ AtReadMessage(calls)
    /\ \E m \in PartialMessages : calls' = Append(calls, m)
    /\ UNCHANGED <<conv, input, pc, am, heap, accessories, now, processed, cmds>>

NextPartial ==
    \/ BuildRegistry
    \/ NewEventClient
    \/ Serve
    \/ ReadPartial
    \/ Dispatch

SpecPartial == InitPartial /\ [][NextPartial]_vars

\* the receive loop reads and decodes an update of a sensor and calls eventFn
ReadSensorUpdate ==
    /\ pc \in {"events", "serving"}
    /\ AtReadMessage(calls)
    /\ \E m \in SensorMessages : calls' = Append(calls, m)
    /\ UNCHANGED <<conv, input, pc, am, heap, accessories, now, processed, cmds>>

NextSensors ==
    \/ BuildRegistry
    \/ NewEventClient
    \/ Serve
    \/ ReadSensorUpdate
    \/ Dispatch

SpecSensors == InitPartial /\ [][NextSensors]_vars

\* ------------------------------------------------ commands that fail
\* One light with the three characteristics, the echo of the gateway for it
\* and the error log of the device: a command is sent, the gateway answers
\* with or without an error, and the callback logs the error and ends.

CommandInputs ==
    { [devices |-> << Device(DeviceId1, <<Subdevice(ColorTemperatureLightDevice, "L1",
                                                    LightObject(TRUE, 255, 300),
                                                    EmptyObject)>>) >>,
       answers |-> NoAnswers] }

\* the state updates the gateway sends for the light
EchoMessages ==
    {Messsage(ChangedEvent, LightsRessource, <<"L1">>, <<OnObject(on)>>, <<>>) :
        on \in BOOLEAN}
    \cup {Messsage(ChangedEvent, LightsRessource, <<"L1">>, <<BriObject(128)>>, <<>>)}

\* a line of light.device.log.Errorf: the light, the command that failed
\* and the time of the line
Errorf(ref, method, at) == [ref |-> ref, method |-> method, at |-> at]

\* a variant of the end of a command that returns after the error is logged
FinishedReturning(light, failed, t) ==
    IF failed THEN light ELSE updateChange(light, t)

\* the rest of SetOn, SetBrightness and SetColorTemperature once the gateway
\* call has returned: the error is logged, if any, and light.updateChange()
\* runs in either case
Finished(light, failed, t) == updateChange(light, t)

InitCommands ==
    /\ input \in CommandInputs
    /\ pc = "start"
    /\ am = NoManager
    /\ heap = EmptyMap
    /\ accessories = <<>>
    /\ now = 0
    /\ processed = <<>>
    /\ calls = <<>>
    /\ cmds = {}
    /\ conv = Conversion("Errorf", <<>>, <<>>, <<>>)

\* the receive loop reads an update for the light and calls eventFn with it
ReadEcho ==
    /\ pc \in {"events", "serving"}
    /\ AtReadMessage(calls)
    /\ \E m \in EchoMessages : calls' = Append(calls, m)
    /\ UNCHANGED <<conv, input, pc, am, heap, accessories, now, processed, cmds>>

\* the callback goes on after the gateway call: conv.raw holds the last
\* line of the error log
Finish ==
    /\ pc = "serving"
    /\ \E c \in cmds :
          /\ c.returned
          /\ heap' = [heap EXCEPT ![c.ref] = Finished(@, c.err, now)]
          /\ conv' = IF c.err
                     THEN [conv EXCEPT !.raw = <<Errorf(c.ref, c.method, now)>>]
                     ELSE conv
          /\ cmds' = cmds \ {c}
    /\ UNCHANGED <<input, pc, am, accessories, now, processed, calls>>

NextCommands ==
    \/ Tick
    \/ BuildRegistry
    \/ NewEventClient
    \/ Serve
    \/ ReadEcho
    \/ Dispatch
    \/ SetOn
    \/ SetBrightness
    \/ SetColorTemperature
    \/ GatewayReturns
    \/ Finish

SpecCommands == InitCommands /\ [][NextCommands]_vars

\* ------------------------------------------- the construction of a switch
\* A switch whose snapshot carries a button event, under press
\* configurations as json.Unmarshal gives them for the files of the
\* directory: LoadFromDirectory does not validate what it has decoded.

\* press configurations of files that are well-formed JSON and that the
\* generator would not write: a button without an event map or with an
\* empty one, and a button with an event code of fewer than three characters
UncheckedConfigurations ==
    { [Buttons |-> << [EventMap |-> (1002 :> ButtonSinglePress)],
                      [EventMap |-> EmptyMap] >>],
      [Buttons |-> << [EventMap |-> (12 :> ButtonSinglePress)] >>] }

\* the values of "buttonevent" in the state of the snapshot
SnapshotCodes == {7, 1001, 1002, 2003}

\* the switch S1 with a state without and with a button event, then a light;
\* the model of the switch has one of the press configurations
PressInputs ==
    { [devices |-> << Device(DeviceId1,
                             <<Subdevice(SwitchDevice, "S1", state, EmptyObject),
                               Subdevice(OnOffLightDevice, "L1", OnObject(TRUE),
                                         EmptyObject)>>) >>,
       answers |-> Answers(EmptyMap, "S1" :> [err |-> FALSE, ModelId |-> "M1"],
                           "M1" :> c)] :
        state \in {EmptyObject} \cup {ButtonEventObject(code) : code \in SnapshotCodes},
        c \in PressConfigurations \cup UncheckedConfigurations }

InitPresses ==
    /\ input \in PressInputs
    /\ pc = "start"
    /\ am = NoManager
    /\ heap = EmptyMap
    /\ accessories = <<>>
    /\ now = 0
    /\ processed = <<>>
    /\ calls = <<>>
    /\ cmds = {}
    /\ conv = NoCall

\* the receive loop reads and decodes a button event with a code a press
\* configuration maps and calls eventFn
ReadPress ==
    /\ pc \in {"events", "serving"}
    /\ AtReadMessage(calls)
    /\ \E m \in {x \in ButtonMessages : x.state[1].buttonevent \in SnapshotCodes \ {7}} :
          calls' = Append(calls, m)
    /\ UNCHANGED <<conv, input, pc, am, heap, accessories, now, processed, cmds>>

NextPresses ==
    \/ BuildRegistry
    \/ NewEventClient
    \/ Serve
    \/ ReadPress
    \/ Dispatch

SpecPresses == InitPresses /\ [][NextPresses]_vars

\* ------------------------------------------------------- DefaultContext
\* main calls DefaultContext and goes on to serve with the context; the
\* goroutine of DefaultContext waits for a signal on the channel c, which
\* has no buffer.  The operating system delivers signals at any time; the
\* signal package sends a signal to c without blocking, so that a signal is
\* handed over only if a receiver is waiting at that moment.

\* the signals the operating system delivers after DefaultContext returned
MaxSignals == 3

\* the signals DefaultContext registers for
Signals == {"SIGINT", "SIGTERM"}

\* the goroutine of DefaultContext and what it shares with main: its
\* position, whether c is registered with the signal package, the signals
\* delivered with what became of each, and whether ctx is cancelled
Waiter(at, notified, delivered, cancelled) ==
    [at |-> at, notified |-> notified, delivered |-> delivered, cancelled |-> cancelled]

\* the send of the signal package to c, "select { case c <- sig: default: }",
\* succeeds: c = make(chan os.Signal) has no buffer, so it does if and only
\* if the goroutine is waiting at <-c
HandedOver(w) == w.at = "<-c"

\* w after the delivery of sig: handed to the goroutine, which goes on to
\* signal.Stop, or dropped; with c no longer registered the signal has its
\* default action
AfterSignal(w, sig) ==
    IF ~w.notified
    THEN [w EXCEPT !.delivered = Append(@, <<sig, "default">>)]
    ELSE IF HandedOver(w)
    THEN [w EXCEPT !.at = "signal.Stop", !.delivered = Append(@, <<sig, "received">>)]
    ELSE [w EXCEPT !.delivered = Append(@, <<sig, "dropped">>)]

InitSignals ==
    /\ input \in {[devices |-> <<>>, answers |-> NoAnswers]}
    /\ pc = "main"
    /\ am = NoManager
    /\ heap = EmptyMap
    /\ accessories = <<>>
    /\ now = 0
    /\ processed = <<>>
    /\ calls = <<>>
    /\ cmds = {}
    /\ conv = Conversion("DefaultContext", <<>>, <<>>, <<Waiter("", FALSE, <<>>, FALSE)>>)

\* main: ctx := DefaultContext().  The channel is made and registered, the
\* context is created, the goroutine is started and ctx is returned
DefaultContext ==
    /\ pc = "main"
    /\ pc' = "serving"
    /\ conv' = [conv EXCEPT !.raw[1].at = "go", !.raw[1].notified = TRUE]
    /\ UNCHANGED <<input, am, heap, accessories, now, processed, calls, cmds>>

\* the goroutine is scheduled and blocks in <-c
Receive ==
    /\ pc \notin {"main", "killed"}
    /\ conv.raw[1].at = "go"
    /\ conv' = [conv EXCEPT !.raw[1].at = "<-c"]
    /\ UNCHANGED <<input, pc, am, heap, accessories, now, processed, calls, cmds>>

\* the operating system delivers SIGINT or SIGTERM to the process; the
\* default action of either ends the process
Deliver ==
    /\ pc \notin {"main", "killed"}
    /\ Len(conv.raw[1].delivered) < MaxSignals
    /\ \E sig \in Signals :
          /\ conv' = [conv EXCEPT !.raw[1] = AfterSignal(@, sig)]
          /\ pc' = IF conv.raw[1].notified THEN pc ELSE "killed"
    /\ UNCHANGED <<input, am, heap, accessories, now, processed, calls, cmds>>

\* the goroutine: signal.Stop(c)
SignalStop ==
    /\ pc \notin {"main", "killed"}
    /\ conv.raw[1].at = "signal.Stop"
    /\ conv' = [conv EXCEPT !.raw[1].at = "cancel", !.raw[1].notified = FALSE]
    /\ UNCHANGED <<input, pc, am, heap, accessories, now, processed, calls, cmds>>

\* the goroutine: cancel(), and the goroutine ends
Cancel ==
    /\ pc \notin {"main", "killed"}
    /\ conv.raw[1].at = "cancel"
    /\ conv' = [conv EXCEPT !.raw[1].at = "done", !.raw[1].cancelled = TRUE]
    /\ UNCHANGED <<input, pc, am, heap, accessories, now, processed, calls, cmds>>

\* main: server.ListenAndServe(ctx) takes a request of a controller
Request ==
    /\ pc = "serving"
    /\ ~conv.raw[1].cancelled
    /\ pc' = "request"
    /\ UNCHANGED <<conv, input, am, heap, accessories, now, processed, calls, cmds>>

\* the server has answered the request
Respond ==
    /\ pc = "request"
    /\ pc' = "serving"
    /\ UNCHANGED <<conv, input, am, heap, accessories, now, processed, calls, cmds>>

\* ListenAndServe returns when ctx is cancelled, and main ends
Shutdown ==
    /\ pc = "serving"
    /\ conv.raw[1].cancelled
    /\ pc' = "stopped"
    /\ UNCHANGED <<conv, input, am, heap, accessories, now, processed, calls, cmds>>

NextSignals ==
    \/ DefaultContext
    \/ Receive
    \/ Deliver
    \/ SignalStop
    \/ Cancel
    \/ Request
    \/ Respond
    \/ Shutdown

SpecSignals == InitSignals /\ [][NextSignals]_vars

\* the goroutine of DefaultContext and the server are scheduled; nothing
\* obliges the operating system to deliver a signal
SpecSignalsFair ==
    /\ SpecSignals
    /\ WF_vars(Receive)
    /\ WF_vars(SignalStop)
    /\ WF_vars(Cancel)
    /\ WF_vars(Request)
    /\ WF_vars(Respond)
    /\ WF_vars(Shutdown)

\* ========================================================== the properties
\* a step in which a call of ProcessUpdate returns, and the message it had
Returns == Len(calls') < Len(calls)
Crashes == calls # <<>> /\ pc # "crashed" /\ pc' = "crashed"
Message == Head(calls)

\* the message passes the filters: resource lights or sensors, event changed
Passes(m) == m.r \in {"lights", "sensors"} /\ m.e = "changed"

\* the adapter a message is addressed to: <<ref>>, or <<>> when it has none
Addressee(m) ==
    IF m.uniqueid # <<>> /\ m.uniqueid[1] \in DOMAIN am.Services
    THEN <<am.Services[m.uniqueid[1]]>> ELSE <<>>

\* the message carries state for the light ref
UpdateFor(m, ref) ==
    /\ Passes(m)
    /\ Addressee(m) = <<ref>>
    /\ heap[ref].type = "Light"
    /\ m.state # <<>>

\* the exposed values of a light
Exposed(l) == <<l.On, l.Brightness, l.ColorTemperature>>

\* the light l with the state st applied: every field st carries and l
\* exposes takes the value of st
AppliedTo(l, st) ==
    [l EXCEPT !.On = IF "on" \in st.has /\ l.On # <<>> THEN <<st.on>> ELSE @,
              !.Brightness = IF "bri" \in st.has /\ l.Brightness # <<>>
                             THEN <<ValueToPercent(st, "bri")>> ELSE @,
              !.ColorTemperature = IF "ct" \in st.has /\ l.ColorTemperature # <<>>
                                   THEN <<st.ct>> ELSE @]

\* the window of the light l covers the time t
InWindow(l, t) ==
    l.lastChange # <<>> /\ l.lastChange[1] <= t /\ t < l.lastChange[1] + Second

\* C1: a command that ends records the time T of its end in the light; an
\* update for the light processed at a time in [T, T + 1s) leaves the on,
\* brightness and color temperature values as they are, and an update
\* processed at T + 1s or later is applied.
C1_Suppression ==
    [][/\ \A c \in cmds : (c.returned /\ c \notin cmds') =>
              heap'[c.ref].lastChange = <<now>>
       /\ \A ref \in DOMAIN heap :
              ((Returns \/ Crashes) /\ UpdateFor(Message, ref)
                  /\ heap[ref].lastChange # <<>>) =>
                 /\ InWindow(heap[ref], now) =>
                       Returns /\ Exposed(heap'[ref]) = Exposed(heap[ref])
                 /\ now >= heap[ref].lastChange[1] + Second =>
                       Returns /\ heap'[ref] = AppliedTo(heap[ref], Message.state[1])
      ]_vars

\* C1, witness: the last update processed was for a light whose command had
\* ended before, it was processed within the window, and the on value of the
\* light is not the one the update carried
C1_Dropped ==
    /\ processed # <<>>
    /\ \E ref \in DOMAIN heap :
          /\ UpdateFor(processed[1].msg, ref)
          /\ InWindow(heap[ref], processed[1].at)
          /\ heap[ref].lastChange[1] < processed[1].at
          /\ "on" \in processed[1].msg.state[1].has
          /\ heap[ref].On # <<>>
          /\ heap[ref].On[1] # processed[1].msg.state[1].on

\* C2: the window is the light's own: the end of a command on a light leaves
\* every other adapter as it is, and an update for a light whose own window
\* is not open is applied while the window of another light is open.
C2_PerAdapter ==
    [][/\ \A c \in cmds : (c.returned /\ c \notin cmds') =>
              \A ref \in DOMAIN heap \ {c.ref} : heap'[ref] = heap[ref]
       /\ \A ref \in DOMAIN heap :
              ((Returns \/ Crashes) /\ UpdateFor(Message, ref)
                  /\ ~InWindow(heap[ref], now)
                  /\ \E a \in DOMAIN heap \ {ref} : InWindow(heap[a], now)) =>
                 Returns /\ heap'[ref] = AppliedTo(heap[ref], Message.state[1])
      ]_vars

\* C2, witness: an update for a light B that never had a command was
\* processed inside the window of another light A and B has the value it
\* carried, which is not the value of the snapshot
C2_OtherWindow ==
    /\ processed # <<>>
    /\ \E a, b \in DOMAIN heap :
          /\ a # b
          /\ UpdateFor(processed[1].msg, b)
          /\ heap[b].lastChange = <<>>
          /\ InWindow(heap[a], processed[1].at)
          /\ heap[a].lastChange[1] < processed[1].at
          /\ "on" \in processed[1].msg.state[1].has
          /\ heap[b].On = <<processed[1].msg.state[1].on>>
          /\ input.devices[b[1]].Subdevices[b[2]].State.on # heap[b].On[1]

\* C3: a call of ProcessUpdate for a message whose resource is not lights or
\* sensors, or whose event is not changed, returns and leaves every adapter
\* and the registry as they are.
C3_Filter ==
    [][((Returns \/ Crashes) /\ ~Passes(Message)) =>
          Returns /\ heap' = heap /\ am' = am]_vars

\* C3, witness: the last message processed was an added event for a known
\* light that never had a command, and the light does not have the on value
\* the message carried
C3_Ignored ==
    /\ processed # <<>>
    /\ processed[1].msg.e = "added"
    /\ processed[1].msg.r = "lights"
    /\ Addressee(processed[1].msg) # <<>>
    /\ heap[Addressee(processed[1].msg)[1]].lastChange = <<>>
    /\ heap[Addressee(processed[1].msg)[1]].On # <<processed[1].msg.state[1].on>>

\* C4: a call of ProcessUpdate for a changed event of lights or sensors whose
\* identifier is not a key of the lookup table returns without a panic and
\* leaves every adapter, the lookup table and the devices as they are.
C4_UnknownDropped ==
    [][((Returns \/ Crashes) /\ Passes(Message) /\ Message.uniqueid # <<>>
           /\ Message.uniqueid[1] \notin DOMAIN am.Services) =>
          Returns /\ heap' = heap /\ am' = am /\ pc' = pc]_vars

\* C4, witness: the last message processed was a changed event for an
\* identifier the lookup table, which is not empty, does not hold
C4_UnknownProcessed ==
    /\ processed # <<>>
    /\ Passes(processed[1].msg)
    /\ processed[1].msg.uniqueid # <<>>
    /\ processed[1].msg.uniqueid[1] \notin DOMAIN am.Services
    /\ DOMAIN am.Services # {}
    /\ pc = "serving"

\* C5: at most one call of ProcessUpdate is running at any time: the receive
\* loop starts the call for a message only when the call for the one before
\* has returned.
C5_Sequential == Len(calls) <= 1

\* C5, witness: a call is running after an earlier call has returned
C5_NextCall == calls # <<>> /\ processed # <<>>

\* C6: the timestamp of a light is never accessed by the dispatch path and
\* the command path at once: while a command on a light is at updateChange,
\* which writes lastChange, no call of ProcessUpdate that reads the
\* lastChange of that light is running.
C6_Synchronized ==
    \A c \in cmds : \A i \in DOMAIN calls : ~(c.returned /\ UpdateFor(calls[i], c.ref))

\* C7: once built, the registry keeps its topology in every step: the
\* devices, their adapter maps, their accessories with their numeric
\* identity, the lookup table and the set of adapters with their types stay
\* as NewAccessoryManager made them, and the accessories handed to the
\* server stay as they are.
C7_TopologyImmutable ==
    [][pc \notin {"start", "crashed"} =>
          /\ am' = am
          /\ DOMAIN heap' = DOMAIN heap
          /\ \A ref \in DOMAIN heap :
                /\ heap'[ref].type = heap[ref].type
                /\ heap'[ref].ID = heap[ref].ID
                /\ heap'[ref].service = heap[ref].service
          /\ accessories # <<>> => accessories' = accessories
      ]_vars

\* C7, witness: the server runs, the registry is not empty, a command has
\* ended on a light and the last message processed was an added event
C7_AfterTraffic ==
    /\ pc = "serving"
    /\ DOMAIN am.Devices # {}
    /\ DOMAIN am.Services # {}
    /\ \E ref \in DOMAIN heap : heap[ref].lastChange # <<>>
    /\ processed # <<>>
    /\ processed[1].msg.e = "added"

\* C8: every device of the registry has at least one adapter, which is on
\* the heap, and every accessory handed to the server is the accessory of
\* such a device.
C8_NoEmptyDevice ==
    /\ \A id \in DOMAIN am.Devices :
          /\ DOMAIN am.Devices[id].Services # {}
          /\ \A k \in DOMAIN am.Devices[id].Services :
                am.Devices[id].Services[k] \in DOMAIN heap
    /\ \A i \in DOMAIN accessories :
          \E id \in DOMAIN am.Devices :
              /\ accessories[i] = am.Devices[id].Accessory
              /\ DOMAIN am.Devices[id].Services # {}

\* C8, witness: the server runs with the accessory of a registered device
\* and the snapshot has a device, with subdevices, that is not registered
C8_Discarded ==
    /\ pc = "serving"
    /\ accessories # <<>>
    /\ \E i \in DOMAIN input.devices :
          /\ input.devices[i].Subdevices # <<>>
          /\ input.devices[i].UniqueId \notin DOMAIN am.Devices

\* the types addSubdevice has a case for
Recognized ==
    {"Dimmable light", "Color temperature light", "ZHAPresence", "ZHAOpenClose",
     "On/Off output", "On/Off plug-in unit", "Smart plug", "On/Off switch",
     "On/Off light", "On/Off light switch", "ZHASwitch", "ZHAWater",
     "Dimmable plug-in unit"}

\* a supported subdevice: its type is recognized and the snapshot and the
\* answers hold what its constructor needs
Supported(sub, answers) ==
    /\ sub.Type \in Recognized
    /\ sub.Type = "ZHAOpenClose" => "open" \in sub.State.has
    /\ sub.Type = "ZHAWater" => "water" \in sub.State.has
    /\ sub.Type = "ZHASwitch" =>
          /\ sub.UniqueId \in DOMAIN answers.sensors
          /\ ~answers.sensors[sub.UniqueId].err
          /\ answers.sensors[sub.UniqueId].ModelId \in DOMAIN answers.deviceConfigs

\* C9: in a registry that has been built, a device with one supported and
\* one unsupported subdevice, in either order, is registered with the
\* adapter of the supported subdevice and no other, and a device whose only
\* subdevice is unsupported is not registered.
C9_UnsupportedSkipped ==
    pc \in {"built", "events", "serving"} =>
       \A i \in DOMAIN input.devices :
          LET id == input.devices[i].UniqueId
              ss == input.devices[i].Subdevices
          IN /\ \A j, k \in DOMAIN ss :
                   (Len(ss) = 2 /\ j # k /\ Supported(ss[j], input.answers)
                       /\ ss[k].Type \notin Recognized) =>
                      /\ id \in DOMAIN am.Devices
                      /\ DOMAIN am.Devices[id].Services = {ss[j].UniqueId}
                      /\ am.Devices[id].Services[ss[j].UniqueId] = <<i, j>>
                      /\ <<i, j>> \in DOMAIN heap
             /\ (Len(ss) = 1 /\ ss[1].Type \notin Recognized) =>
                   id \notin DOMAIN am.Devices

\* C9, witness: the registry is built from a snapshot whose first device
\* has an unsupported subdevice before a supported one and is registered
\* with one adapter, and whose second device has one subdevice, which is
\* unsupported, and is not registered
C9_BothCases ==
    /\ pc = "built"
    /\ Len(input.devices[1].Subdevices) = 2
    /\ input.devices[1].Subdevices[1].Type \notin Recognized
    /\ Supported(input.devices[1].Subdevices[2], input.answers)
    /\ input.devices[1].UniqueId \in DOMAIN am.Devices
    /\ Cardinality(DOMAIN am.Devices[input.devices[1].UniqueId].Services) = 1
    /\ Len(input.devices[2].Subdevices) = 1
    /\ input.devices[2].Subdevices[1].Type \notin Recognized
    /\ input.devices[2].UniqueId \notin DOMAIN am.Devices

\* the constructor of the switch sub fails: the gateway has no details of
\* the sensor, or the store has no press configuration for its model
SwitchFails(sub, answers) ==
    /\ sub.Type = "ZHASwitch"
    /\ \/ sub.UniqueId \notin DOMAIN answers.sensors
       \/ answers.sensors[sub.UniqueId].err
       \/ answers.sensors[sub.UniqueId].ModelId \notin DOMAIN answers.deviceConfigs

\* C11: in a registry that has been built, a switch subdevice whose
\* constructor failed has no adapter, no entry in the adapter map of its
\* device or in the lookup table and no button endpoint on the accessory;
\* every supported sibling has its adapter, and the device is registered
\* exactly when one of its subdevices has an adapter.
C11_SwitchFailureLocal ==
    pc \in {"built", "events", "serving"} =>
       \A i \in DOMAIN input.devices :
          LET id == input.devices[i].UniqueId
              ss == input.devices[i].Subdevices
          IN \A j \in DOMAIN ss :
                SwitchFails(ss[j], input.answers) =>
                   /\ <<i, j>> \notin DOMAIN heap
                   /\ ss[j].UniqueId \notin DOMAIN am.Services
                   /\ id \in DOMAIN am.Devices =>
                         /\ ss[j].UniqueId \notin DOMAIN am.Devices[id].Services
                         /\ \A n \in DOMAIN am.Devices[id].Accessory.Ss :
                               /\ am.Devices[id].Accessory.Ss[n][1] # <<i, j>>
                               /\ am.Devices[id].Accessory.Ss[n][2] #
                                      "StatelessProgrammableSwitch"
                   /\ \A k \in DOMAIN ss \ {j} :
                         Supported(ss[k], input.answers) =>
                            /\ id \in DOMAIN am.Devices
                            /\ <<i, k>> \in DOMAIN heap
                            /\ ss[k].UniqueId \in DOMAIN am.Devices[id].Services
                            /\ am.Devices[id].Services[ss[k].UniqueId] = <<i, k>>
                            /\ am.Services[ss[k].UniqueId] = <<i, k>>
                   /\ id \in DOMAIN am.Devices <=>
                         \E k \in DOMAIN ss \ {j} : <<i, k>> \in DOMAIN heap

\* C11, witness: the registry is built from a snapshot whose first device
\* has a switch, of a model without press configuration, before a supported
\* light: the device is registered with the light alone; the second device
\* has only a switch of that model and is not registered
C11_MissingConfiguration ==
    /\ pc = "built"
    /\ Len(input.devices[1].Subdevices) = 2
    /\ input.devices[1].Subdevices[1].Type = "ZHASwitch"
    /\ input.devices[1].Subdevices[1].UniqueId \in DOMAIN input.answers.sensors
    /\ SwitchFails(input.devices[1].Subdevices[1], input.answers)
    /\ input.devices[1].Subdevices[2].Type = "Dimmable light"
    /\ input.devices[1].UniqueId \in DOMAIN am.Devices
    /\ DOMAIN am.Devices[input.devices[1].UniqueId].Services = {"A2"}
    /\ Len(input.devices[2].Subdevices) = 1
    /\ SwitchFails(input.devices[2].Subdevices[1], input.answers)
    /\ input.devices[2].UniqueId \notin DOMAIN am.Devices

\* the message carries a button event for the switch ref
ButtonEventFor(m, ref) ==
    /\ Passes(m)
    /\ Addressee(m) = <<ref>>
    /\ heap[ref].type = "SwitchDevice"
    /\ m.state # <<>>
    /\ "buttonevent" \in m.state[1].has

\* the press configuration of the model of the switch sub
ConfigurationOf(sub) ==
    input.answers.deviceConfigs[input.answers.sensors[sub.UniqueId].ModelId]

\* the press types the configuration of the switch ref maps the code c to
MappedPress(ref, c) ==
    LET Buttons == ConfigurationOf(input.devices[ref[1]].Subdevices[ref[2]]).Buttons
    IN {Buttons[n].EventMap[c] : n \in {x \in DOMAIN Buttons : c \in DOMAIN Buttons[x].EventMap}}

\* the value of the press-type endpoint for a press type of the configuration
EndpointValue(press) ==
    CASE press = "SINGLE_PRESS" -> 0
      [] press = "DOUBLE_PRESS" -> 1
      [] press = "LONG_PRESS" -> 2

\* the buttons of the switch ref whose endpoint the step changes
ChangedButtons(ref) ==
    {b \in DOMAIN heap[ref].services \cup DOMAIN heap'[ref].services :
        \/ b \notin DOMAIN heap[ref].services
        \/ b \notin DOMAIN heap'[ref].services
        \/ heap'[ref].services[b] # heap[ref].services[b]}

Scenario3 ==
    [Buttons |-> << [EventMap |-> (1001 :> "SINGLE_PRESS")],
                    [EventMap |-> (2003 :> "DOUBLE_PRESS")] >>]

\* the switch ref has the press configuration {1001: single, 2003: double}
HasScenario3(ref) ==
    ConfigurationOf(input.devices[ref[1]].Subdevices[ref[2]]) = Scenario3

C14_UnmappedIgnored ==
    [][\A ref \in DOMAIN heap :
          ((Returns \/ Crashes) /\ ButtonEventFor(Message, ref)
              /\ MappedPress(ref, Message.state[1].buttonevent) = {}) =>
             Returns /\ heap' = heap /\ am' = am
      ]_vars

\* the elements of a list
Elements(list) == {list[n] : n \in DOMAIN list}

\* C15: in a registry that has been built, the endpoint of every button of
\* the press configuration of a switch advertises the press types that are
\* values of the event map of that button, and no other, each of them once.
C15_ValidVals ==
    pc \in {"built", "events", "serving"} =>
       \A ref \in DOMAIN heap :
          heap[ref].type = "SwitchDevice" =>
             LET Buttons == ConfigurationOf(input.devices[ref[1]].Subdevices[ref[2]]).Buttons
             IN \A n \in DOMAIN Buttons :
                   \A c \in DOMAIN Buttons[n].EventMap :
                      /\ (c \div 1000) \in DOMAIN heap[ref].services
                      /\ LET ValidVals == heap[ref].services[c \div 1000].ValidVals
                         IN /\ Elements(ValidVals) =
                                  {EndpointValue(Buttons[n].EventMap[k]) :
                                      k \in DOMAIN Buttons[n].EventMap}
                            /\ Len(ValidVals) = Cardinality(Elements(ValidVals))

\* C15, witness: a switch is built whose configuration has a button with
\* more codes than press types; the endpoint of the button advertises three
\* press types and the endpoint of another button only one
C15_SharedPressType ==
    /\ pc = "built"
    /\ \E ref \in DOMAIN heap :
          /\ heap[ref].type = "SwitchDevice"
          /\ \E n \in DOMAIN ConfigurationOf(input.devices[ref[1]].Subdevices[ref[2]]).Buttons :
                Cardinality(DOMAIN ConfigurationOf(
                    input.devices[ref[1]].Subdevices[ref[2]]).Buttons[n].EventMap) > 3
          /\ \E a, b \in DOMAIN heap[ref].services :
                /\ Len(heap[ref].services[a].ValidVals) = 3
                /\ Len(heap[ref].services[b].ValidVals) = 1

\* p is r * 100 / 255 rounded to the nearest whole number
IsRoundedPercent(p, r) ==
    /\ 2 * (100 * r - 255 * p) <= 255
    /\ 2 * (255 * p - 100 * r) <= 255

\* C16: a state update that is applied to a light with brightness, the one
\* of the snapshot at the construction of the light or one of a message,
\* and carries the raw brightness r sets the exposed brightness to
\* round(r * 100 / 255); the raw brightness 128 gives 50.
C16_InboundBrightness ==
    [][/\ (pc = "start" /\ pc' = "built") =>
             \A i \in DOMAIN input.devices : \A j \in DOMAIN input.devices[i].Subdevices :
                LET sub == input.devices[i].Subdevices[j]
                IN (sub.Type = "Dimmable light" /\ "bri" \in sub.State.has) =>
                      /\ <<i, j>> \in DOMAIN heap'
                      /\ heap'[<<i, j>>].Brightness # <<>>
                      /\ IsRoundedPercent(heap'[<<i, j>>].Brightness[1], sub.State.bri)
                      /\ sub.State.bri = 128 => heap'[<<i, j>>].Brightness = <<50>>
       /\ \A ref \in DOMAIN heap :
             ((Returns \/ Crashes) /\ UpdateFor(Message, ref)
                 /\ "bri" \in Message.state[1].has
                 /\ heap[ref].Brightness # <<>>
                 /\ ~InWindow(heap[ref], now)) =>
                /\ Returns
                /\ heap'[ref].Brightness # <<>>
                /\ IsRoundedPercent(heap'[ref].Brightness[1], Message.state[1].bri)
                /\ Message.state[1].bri = 128 => heap'[ref].Brightness = <<50>>
      ]_vars

\* C16, witness: a light built from a snapshot with another brightness
\* exposes 50 after a message with the raw brightness 128
C16_Bri128 ==
    /\ processed # <<>>
    /\ \E ref \in DOMAIN heap :
          /\ UpdateFor(processed[1].msg, ref)
          /\ processed[1].msg.state[1].has = {"bri"}
          /\ processed[1].msg.state[1].bri = 128
          /\ input.devices[ref[1]].Subdevices[ref[2]].State.bri = 24
          /\ heap[ref].Brightness = <<50>>

\* v is p * 255 / 100 rounded to the nearest whole number, a half upward
IsRoundedRaw(v, p) ==
    /\ 2 * (255 * p - 100 * v) <= 100
    /\ 2 * (100 * v - 255 * p) < 100

\* the raw brightness of a LightState, 0 when it carries none
RawSent(state) == IF state.Brightness = <<>> THEN 0 ELSE state.Brightness[1]

\* C17: for every percentage p from 0 to 100, the raw brightness that
\* SetLightBrightness sends for p and the value DecToRaw computes for p are
\* round(p * 255 / 100).
C17_OutboundBrightness ==
    /\ (conv.fn = "SetLightBrightness" /\ conv.ret # <<>>) =>
          IsRoundedRaw(RawSent(conv.ret[1]), conv.param)
    /\ (conv.fn = "DecToRaw" /\ conv.ret # <<>>) =>
          IsRoundedRaw(conv.ret[1], conv.param)

\* C18: for every raw brightness r from 0 to 255, the raw brightness sent
\* for the percentage that was exposed for r differs from r by at most 1.
C18_RoundTrip ==
    (conv.fn = "SetLightBrightness" /\ conv.raw # <<>> /\ conv.ret # <<>>) =>
       /\ RawSent(conv.ret[1]) - conv.raw[1] <= 1
       /\ conv.raw[1] - RawSent(conv.ret[1]) <= 1

\* C19: RawToDeg gives 0 for 0 and 360 for 65535 and does not decrease from
\* a raw value to the next, so that it is not constant, and DegToRaw gives
\* 65535 for 360.
C19_HueLinear ==
    /\ (conv.fn = "RawToDeg" /\ conv.ret # <<>>) =>
          /\ conv.param = 0 => conv.ret[1] = 0
          /\ conv.param = 65535 => conv.ret[1] = 360
          /\ conv.param > 0 => conv.ret[1] >= RawToDeg(conv.param - 1)
          /\ conv.ret[1] >= 0 /\ conv.ret[1] <= 360
    /\ (conv.fn = "DegToRaw" /\ conv.ret # <<>> /\ conv.param = 360) =>
          conv.ret[1] = 65535

\* the characters of a base 16 number, by value
Hexadecimal ==
    <<{"0"}, {"1"}, {"2"}, {"3"}, {"4"}, {"5"}, {"6"}, {"7"}, {"8"}, {"9"},
      {"a", "A"}, {"b", "B"}, {"c", "C"}, {"d", "D"}, {"e", "E"}, {"f", "F"}>>

\* the value of the character c of a base 16 number
HexValue(c) == (CHOOSE n \in DOMAIN Hexadecimal : c \in Hexadecimal[n]) - 1

\* c is neither a colon nor a hyphen
NoSeparator(c) == c \notin {":", "-"}

\* the digit of weight 16^(k-1) of the number whose digit values, most
\* significant first, are ds
DigitOf(ds, k) == IF k <= Len(ds) THEN ds[Len(ds) + 1 - k] ELSE 0

\* C20: the identity uniqueIdToHomeKitId returns for id is the number that
\* id without its colons and hyphens is in base 16, modulo 2^64: it is below
\* 16^16, written without leading zeros, and each of its 16 hexadecimal
\* digits is the digit of the same weight of that number.  The identity is
\* a function of id alone.
C20_HomeKitId ==
    (conv.fn = "uniqueIdToHomeKitId" /\ conv.ret # <<>>) =>
       LET number == SelectSeq(conv.param, NoSeparator)
           identity == conv.ret[1]
       IN /\ Len(identity) <= 16
          /\ identity # <<>> => identity[1] # 0
          /\ \A k \in 1..16 :
                DigitOf(identity, k) =
                   IF k <= Len(number) THEN HexValue(number[Len(number) + 1 - k]) ELSE 0

\* C20, witness: the identity of an identifier with colons, a hyphen and
\* more than 16 digits, the first of which is not 0, was computed
C20_LongIdentifier ==
    /\ conv.fn = "uniqueIdToHomeKitId"
    /\ conv.ret # <<>>
    /\ Len(SelectSeq(conv.param, NoSeparator)) > 16
    /\ \E n, k \in DOMAIN conv.param : conv.param[n] = ":" /\ conv.param[k] = "-"
    /\ conv.param[1] \in {"1", "a", "F"}
    /\ Len(conv.ret[1]) = 16

\* the unique identifier is written as the gateway writes it: pairs of
\* lower-case hexadecimal digits separated by colons, at most eight pairs
Paired(id) ==
    /\ Len(id) % 3 = 2
    /\ Len(id) <= 23
    /\ \A i \in DOMAIN id :
          IF i % 3 = 0 THEN id[i] = ":"
          ELSE id[i] \in {"0", "1", "2", "3", "4", "5", "6", "7", "8", "9",
                          "a", "b", "c", "d", "e", "f"}

\* the accessories served for the devices i and j of the snapshot have
\* different identities
DifferentIdentities(i, j) ==
    /\ input.devices[i].UniqueId \in DOMAIN am.Devices
    /\ input.devices[j].UniqueId \in DOMAIN am.Devices
    /\ am.Devices[input.devices[i].UniqueId].Accessory.Id
         # am.Devices[input.devices[j].UniqueId].Accessory.Id
    /\ \A k, l \in DOMAIN accessories : k # l => accessories[k].Id # accessories[l].Id

\* C21: for any two devices of a snapshot whose unique identifiers are
\* distinct and written as pairs of lower-case hexadecimal digits separated
\* by colons, with as many pairs in the one as in the other, the derived
\* identities differ, and no two accessories served share an identity.
C21_PairedCollisionFree ==
    pc \in {"built", "events", "serving"} =>
       \A i, j \in DOMAIN input.devices :
          /\ i # j
          /\ input.devices[i].UniqueId # input.devices[j].UniqueId
          /\ Paired(input.devices[i].UniqueId)
          /\ Paired(input.devices[j].UniqueId)
          /\ Len(input.devices[i].UniqueId) = Len(input.devices[j].UniqueId)
          => DifferentIdentities(i, j)

\* two devices whose identifiers of eight pairs differ in the last digit are
\* served
C21_TwoLongIdentifiers ==
    /\ pc = "serving"
    /\ Len(accessories) = 2
    /\ Len(input.devices[1].UniqueId) = 23
    /\ Len(input.devices[2].UniqueId) = 23
    /\ Paired(input.devices[1].UniqueId)
    /\ Paired(input.devices[2].UniqueId)
    /\ SubSeq(input.devices[1].UniqueId, 1, 22) = SubSeq(input.devices[2].UniqueId, 1, 22)
    /\ accessories[1].Id # accessories[2].Id

\* C21 as stated, for any two distinct unique-identifier strings: the
\* derived identities differ and no two accessories served share an identity.
C21_CollisionFree ==
    pc \in {"built", "events", "serving"} =>
       \A i, j \in DOMAIN input.devices :
          i # j /\ input.devices[i].UniqueId # input.devices[j].UniqueId
          => DifferentIdentities(i, j)

\* the positions of the identifier list whose GetDevice returned no error
Fetched == SelectSeq([k \in DOMAIN input.device |-> k], LAMBDA k : ~input.device[k].err)

\* C22: when ListDevices returns the identifier list, GetAllDevices returns
\* without error exactly what GetDevice returned for the identifiers whose
\* fetch did not fail, in the order of the list; it returns an error only
\* when ListDevices does, and it does not end otherwise than by returning.
C22_PartialFetch ==
    /\ pc = "returned" =>
          /\ conv.ret[1].err = input.list.err
          /\ ~input.list.err =>
                /\ Len(conv.ret[1].devices) = Len(Fetched)
                /\ \A j \in DOMAIN Fetched :
                      conv.ret[1].devices[j] = input.device[Fetched[j]].ptr
    /\ pc = "crashed" => input.list = GetNull
    /\ pc = "range" /\ conv.raw[1].i > Len(input.list.ptr[1]) =>
          conv.raw[1].i = Len(input.list.ptr[1]) + 1

\* of ten identifiers the fetch of three has failed, the third, the fourth
\* and the last: seven devices are returned
C22_SevenOfTen ==
    /\ pc = "returned"
    /\ Len(input.device) = 10
    /\ {k \in 1..10 : input.device[k].err} = {3, 4, 10}
    /\ ~conv.ret[1].err
    /\ Len(conv.ret[1].devices) = 7
    /\ conv.ret[1].devices[3] = <<Device(TenIds[5], <<>>)>>

\* the k-th file of the directory is readable and well-formed and lists the
\* model
Lists(k, model) ==
    /\ input.files[k].read
    /\ input.files[k].config # <<>>
    /\ \E j \in DOMAIN input.files[k].config[1].Models :
          input.files[k].config[1].Models[j] = model

\* C23: LoadFromDirectory skips every unreadable or malformed file and
\* continues: it returns no error for such a file, and the returned map has
\* exactly the models listed by the readable well-formed files, each with
\* the configuration of the last file, in the order of filepath.Glob, that
\* lists it.
C23_LastListingFile ==
    pc = "returned" =>
       /\ conv.ret[1].err = input.err
       /\ ~input.err =>
             /\ DOMAIN conv.ret[1].configMap
                  = {model \in {"M1", "M2"} : \E k \in DOMAIN input.files : Lists(k, model)}
             /\ \A k \in DOMAIN input.files : \A model \in {"M1", "M2"} :
                   /\ Lists(k, model)
                   /\ \A l \in DOMAIN input.files : l > k => ~Lists(l, model)
                   => conv.ret[1].configMap[model] = input.files[k].config[1]

\* an unreadable file, a malformed file and a well-formed file listing two
\* models: both models have the configuration of the third file
C23_OneOfThree ==
    /\ pc = "returned"
    /\ Len(input.files) = 3
    /\ input.files[1] = Unreadable
    /\ input.files[2] = Malformed
    /\ Lists(3, "M1") /\ Lists(3, "M2")
    /\ ~conv.ret[1].err
    /\ conv.ret[1].configMap["M1"].Description = "c.json"
    /\ conv.ret[1].configMap["M2"] = input.files[3].config[1]

\* C23 as stated: the returned map contains, for each model listed by a
\* readable well-formed file, that file's configuration, and no failure of a
\* file is returned as an error.
C23_EveryListingFile ==
    pc = "returned" /\ ~input.err =>
       /\ ~conv.ret[1].err
       /\ \A k \in DOMAIN input.files : \A model \in {"M1", "M2"} :
             Lists(k, model) =>
                /\ model \in DOMAIN conv.ret[1].configMap
                /\ conv.ret[1].configMap[model] = input.files[k].config[1]

\* the i-th device of the snapshot has one subdevice, an on/off light whose
\* state is {on: true}
LoneLightOn(i) ==
    /\ Len(input.devices[i].Subdevices) = 1
    /\ input.devices[i].Subdevices[1].Type = OnOffLightDevice
    /\ input.devices[i].Subdevices[1].State.has = {"on"}
    /\ input.devices[i].Subdevices[1].State.on

\* C24: construction applies the snapshot state: a device with one
\* on/off-light subdevice with state {on: true} is registered with one
\* lightbulb service whose exposed on value is true and whose lastChange is
\* unset, so that no command preceded the application and nothing suppressed
\* it; exactly one accessory is served for the device.
C24_SnapshotApplied ==
    \A i \in DOMAIN input.devices :
       LoneLightOn(i) /\ pc \in {"built", "events", "serving"} =>
          /\ input.devices[i].UniqueId \in DOMAIN am.Devices
          /\ am.Devices[input.devices[i].UniqueId].Accessory.Ss = <<<<<<i, 1>>, TypeLightbulb>>>>
          /\ am.Services[input.devices[i].Subdevices[1].UniqueId] = <<i, 1>>
          /\ heap[<<i, 1>>].On = <<TRUE>>
          /\ heap[<<i, 1>>].Brightness = <<>>
          /\ heap[<<i, 1>>].lastChange = <<>>
          /\ cmds = {}
          /\ pc = "serving" =>
                Cardinality({k \in DOMAIN accessories :
                               accessories[k] = am.Devices[input.devices[i].UniqueId].Accessory}) = 1

\* the snapshot of a device with one on/off light that is on, and a device
\* without subdevices: one accessory is served
C24_OneAccessory ==
    /\ pc = "serving"
    /\ LoneLightOn(1)
    /\ input.devices[2].Subdevices = <<>>
    /\ Len(accessories) = 1
    /\ heap[<<1, 1>>].On = <<TRUE>>

\* the event code of the k-th row of the map
CodeOf(k) ==
    ValueOf(input.Buttons, input.Map[k][1]) + ValueOf(input.Actions, input.Map[k][2])

\* C25: of the rows the generator has gone through, a row whose event code
\* is below 1000 produces no button and no entry of an event map, and every
\* row whose code is at or above 1000 and whose action is short released,
\* double press or long released is entered under its code with its press.
C25_GenerationThreshold ==
    pc \in {"generate", "generated"} =>
       /\ \A b \in DOMAIN conv.raw[1].buttonsMap :
             /\ \E k \in 1..(conv.raw[1].i - 1) : input.Map[k][1] = b /\ CodeOf(k) >= 1000
             /\ \A c \in DOMAIN conv.raw[1].buttonsMap[b].EventMap : c >= 1000
       /\ \A k \in 1..(conv.raw[1].i - 1) :
             CodeOf(k) >= 1000 /\ PressOf(input.Map[k][2]) # <<>> =>
                /\ input.Map[k][1] \in DOMAIN conv.raw[1].buttonsMap
                /\ CodeOf(k) \in DOMAIN conv.raw[1].buttonsMap[input.Map[k][1]].EventMap
                /\ conv.raw[1].buttonsMap[input.Map[k][1]].EventMap[CodeOf(k)]
                     = PressOf(input.Map[k][2])[1]

\* the messages of the well-formed frames among the first n the gateway sent
RECURSIVE Decoded(_)
Decoded(n) ==
    IF n = 0 THEN <<>>
    ELSE IF Len(conv.raw[1].sent[n]) = 3
         THEN Append(Decoded(n - 1), conv.raw[1].sent[n][2])
         ELSE Decoded(n - 1)

\* a frame that has failed to decode is behind the loop and a frame is
\* waiting on the open connection of the running process
WaitingAfterMalformed ==
    /\ pc \in {"events", "serving"}
    /\ ~conv.raw[1].closed
    /\ conv.raw[1].read < Len(conv.raw[1].sent)
    /\ \E k \in 1..conv.raw[1].read : Len(conv.raw[1].sent[k]) # 3

\* all frames sent have been read, or the connection is closed or the
\* process has ended
AllRead ==
    \/ conv.raw[1].read = Len(conv.raw[1].sent)
    \/ conv.raw[1].closed
    \/ pc = "crashed"

\* C26: a malformed change message is skipped and processing continues: the
\* messages passed to eventFn are at all times the messages of the
\* well-formed frames read, in the order the gateway sent them, and a frame
\* that waits behind one that failed to decode is read in its turn.
C26_MalformedSkipped ==
    /\ [](conv.raw[1].passed = Decoded(conv.raw[1].read))
    /\ (WaitingAfterMalformed ~> AllRead)

\* a truncated frame has been logged and the frame sent after it, a message
\* for the light, has been passed to eventFn and applied
C26_PassedAfterMalformed ==
    /\ Len(conv.raw[1].sent) >= 2
    /\ conv.raw[1].sent[1] = Truncated(Messsage(SceneEvent, ScenesRessource, <<>>, <<>>, <<>>))
    /\ conv.raw[1].sent[2]
         = Encoded(Messsage(ChangedEvent, LightsRessource, <<"L1">>, <<OnObject(TRUE)>>, <<>>))
    /\ conv.raw[1].log = "message unmarshal error"
    /\ conv.raw[1].passed
         = <<Messsage(ChangedEvent, LightsRessource, <<"L1">>, <<OnObject(TRUE)>>, <<>>)>>
    /\ calls = <<>>
    /\ heap[<<1, 1>>].On = <<TRUE>>

\* the receive loop has a step to take: a read that returns, or a call of
\* eventFn that runs
LoopRuns ==
    ENABLED ReadFrame \/ ENABLED ReadFails \/ ENABLED Continue \/ ENABLED Dispatch

\* C27: EventClient.Stop closes the connection and stops the goroutine of
\* the receive loop: once Stop has been called the connection is closed and
\* the done channel has been closed exactly once, and the receive loop
\* eventually has no step left to take.
C27_StopEndsLoop ==
    /\ [](conv.raw[1].closes > 0 => conv.raw[1].closed /\ conv.raw[1].closes = 1)
    /\ (conv.raw[1].closes > 0 ~> ~LoopRuns)

\* C28: the partial state SetLightBrightness writes turns the light off for
\* the brightness 0, with on = false and no brightness field, and turns it
\* on for every brightness from 1 to 100, with on = true and a brightness
\* field whose raw value is above 0 and fits a uint8; it never carries a
\* color temperature.
C28_BrightnessWrite ==
    (conv.fn = "SetLightBrightness" /\ conv.ret # <<>>) =>
       /\ conv.ret[1].ColorTemperature = <<>>
       /\ conv.param = 0 => conv.ret[1].On = <<FALSE>> /\ conv.ret[1].Brightness = <<>>
       /\ conv.param \in 1..100 =>
             /\ conv.ret[1].On = <<TRUE>>
             /\ Len(conv.ret[1].Brightness) = 1
             /\ conv.ret[1].Brightness[1] \in 1..255

\* the state written for the brightness 1: on, with the raw brightness 2
C28_DimmestOn ==
    /\ conv.fn = "SetLightBrightness"
    /\ conv.param = 1
    /\ conv.ret = <<[On |-> <<TRUE>>, Brightness |-> <<2>>, ColorTemperature |-> <<>>]>>

\* the field of the payload st is present and the light l exposes it
Touches(st, l, key) ==
    /\ key \in st.has
    /\ CASE key = "on" -> l.On # <<>>
         [] key = "bri" -> l.Brightness # <<>>
         [] key = "ct" -> l.ColorTemperature # <<>>

\* C29: a state update applied to a light changes the exposed fields that
\* are present in the payload and enabled on the adapter, to the values of
\* the payload, and nothing else: a field that is absent or that the adapter
\* does not expose stays as it is, the rest of the adapter and every other
\* adapter stay as they are (a payload with only bri leaves on and ct, and
\* bri or ct sent to an on/off light change nothing).
C29_FrameOfUpdate ==
    [][\A ref \in DOMAIN heap :
          ((Returns \/ Crashes) /\ UpdateFor(Message, ref) /\ ~InWindow(heap[ref], now)) =>
             /\ Returns
             /\ DOMAIN heap' = DOMAIN heap
             /\ \A other \in DOMAIN heap \ {ref} : heap'[other] = heap[other]
             /\ heap'[ref].On = IF Touches(Message.state[1], heap[ref], "on")
                                THEN <<Message.state[1].on>> ELSE heap[ref].On
             /\ IF Touches(Message.state[1], heap[ref], "bri")
                THEN /\ Len(heap'[ref].Brightness) = 1
                     /\ IsRoundedPercent(heap'[ref].Brightness[1], Message.state[1].bri)
                ELSE heap'[ref].Brightness = heap[ref].Brightness
             /\ heap'[ref].ColorTemperature = IF Touches(Message.state[1], heap[ref], "ct")
                                              THEN <<Message.state[1].ct>>
                                              ELSE heap[ref].ColorTemperature
             /\ [heap'[ref] EXCEPT !.On = <<>>, !.Brightness = <<>>, !.ColorTemperature = <<>>]
                  = [heap[ref] EXCEPT !.On = <<>>, !.Brightness = <<>>, !.ColorTemperature = <<>>]
      ]_vars

\* a payload with bri and without ct has been applied to the color
\* temperature light, which keeps the color temperature of the snapshot, and
\* a payload with bri and ct has been sent to the on/off light
C29_OnlyBri ==
    /\ pc = "serving"
    /\ calls = <<>>
    /\ processed # <<>>
    /\ processed[1].msg.uniqueid = <<"L1">>
    /\ processed[1].msg.state[1].has = {"bri", "ct"}
    /\ heap[<<1, 1>>].On = <<FALSE>>
    /\ heap[<<1, 1>>].Brightness = <<>>
    /\ heap[<<1, 3>>].On = <<TRUE>>
    /\ heap[<<1, 3>>].Brightness = <<50>>
    /\ heap[<<1, 3>>].ColorTemperature = <<200>>

\* the message carries state for the sensor ref, contact or leak
SensorUpdateFor(m, ref) ==
    /\ Passes(m)
    /\ Addressee(m) = <<ref>>
    /\ heap[ref].type \in {"OpenCloseSensor", "WaterSensor"}
    /\ m.state # <<>>

\* C30: a state update for a contact sensor or a leak sensor completes
\* without failure whatever fields it carries: when "open" (for the leak
\* sensor "water") is absent the contact (leak) value stays as it is, and a
\* lowbattery field that is present is applied.
C30_AbsentFieldTolerated ==
    [][\A ref \in DOMAIN heap :
          ((Returns \/ Crashes) /\ SensorUpdateFor(Message, ref)) =>
             /\ Returns
             /\ "open" \notin Message.state[1].has =>
                   heap'[ref].ContactSensorState = heap[ref].ContactSensorState
             /\ "water" \notin Message.state[1].has =>
                   heap'[ref].LeakDetected = heap[ref].LeakDetected
             /\ ("lowbattery" \in Message.state[1].has
                   /\ heap[ref].lowBatteryCharacteristic # <<>>) =>
                   heap'[ref].lowBatteryCharacteristic
                     = <<IF Message.state[1].lowbattery THEN 1 ELSE 0>>
      ]_vars

\* C31: a call of ProcessUpdate with a changed event of lights or sensors
\* that carries no unique identifier returns and leaves every adapter and
\* the registry as they are.
C31_NoIdentifierDropped ==
    [][((Returns \/ Crashes) /\ Passes(Message) /\ Message.uniqueid = <<>>) =>
          Returns /\ heap' = heap /\ am' = am
      ]_vars

\* a command on the light ref has been sent to the gateway and has not
\* completed: its gateway call is in flight, or has returned and
\* updateChange has not run yet
InFlight(ref) == \E c \in cmds : c.ref = ref

\* C32: an update for a light that is processed while a command on that
\* light is in flight, or within one second of the completion of a command
\* on it, leaves the on, brightness and color temperature values of the
\* light as they are.
C32_EchoDropped ==
    [][\A ref \in DOMAIN heap :
          (Returns /\ UpdateFor(Message, ref)
              /\ (InFlight(ref) \/ InWindow(heap[ref], now))) =>
             Exposed(heap'[ref]) = Exposed(heap[ref])
      ]_vars

\* C33: a command whose gateway call returned an error records the time T
\* of its end in the light like one that succeeded, and an update for the
\* light processed at a time in [T, T + 1s) leaves the on, brightness and
\* color temperature values as they are.
C33_FailedCommandRecorded ==
    [][/\ \A c \in cmds : (c.returned /\ c.err /\ c \notin cmds') =>
              heap'[c.ref].lastChange = <<now>>
       /\ \A ref \in DOMAIN heap :
              ((Returns \/ Crashes) /\ UpdateFor(Message, ref)
                  /\ conv.raw # <<>> /\ conv.raw[1].ref = ref
                  /\ conv.raw[1].at <= now /\ now < conv.raw[1].at + Second) =>
                 Returns /\ Exposed(heap'[ref]) = Exposed(heap[ref])
      ]_vars

\* C33, witness: the last command on a light failed, and the last update
\* processed was for that light, after the failure and within a second of
\* it, with an on value that is not the one the light shows
C33_DroppedAfterFailure ==
    /\ processed # <<>>
    /\ conv.raw # <<>>
    /\ \E ref \in DOMAIN heap :
          /\ conv.raw[1].ref = ref
          /\ heap[ref].lastChange = <<conv.raw[1].at>>
          /\ UpdateFor(processed[1].msg, ref)
          /\ conv.raw[1].at < processed[1].at
          /\ processed[1].at < conv.raw[1].at + Second
          /\ heap[ref].On # <<>>
          /\ heap[ref].On[1] # processed[1].msg.state[1].on

C35_PressAdvertised ==
    \A ref \in DOMAIN heap :
       heap[ref].type = "SwitchDevice" =>
          \A b \in DOMAIN heap[ref].services :
             \/ heap[ref].services[b].ProgrammableSwitchEvent = <<>>
             \/ heap[ref].services[b].ProgrammableSwitchEvent[1]
                   \in Elements(heap[ref].services[b].ValidVals)

\* C35, witness: a button event has been processed and a button of the
\* switch shows a press type that another button of the switch, which shows
\* none, does not advertise
C35_PressOfOneButton ==
    /\ processed # <<>>
    /\ \E ref \in DOMAIN heap :
          /\ ButtonEventFor(processed[1].msg, ref)
          /\ \E a, b \in DOMAIN heap[ref].services :
                /\ heap[ref].services[a].ProgrammableSwitchEvent # <<>>
                /\ heap[ref].services[a].ProgrammableSwitchEvent[1]
                      \notin Elements(heap[ref].services[b].ValidVals)
                /\ heap[ref].services[b].ProgrammableSwitchEvent = <<>>

\* no subdevice identifier of the snapshot is under two devices
DistinctAcrossDevices(devices) ==
    \A i, j \in DOMAIN devices :
       i # j => \A a \in DOMAIN devices[i].Subdevices, b \in DOMAIN devices[j].Subdevices :
                   devices[i].Subdevices[a].UniqueId # devices[j].Subdevices[b].UniqueId

\* C36: once the registry of a snapshot whose subdevice identifiers are
\* distinct across devices is built, the keys of its lookup table are the
\* keys of the adapter maps of the registered devices, and the table holds
\* under each of them the adapter the device's own map holds.
C36_LookupIsUnion ==
    (pc \in {"built", "events", "serving"} /\ DistinctAcrossDevices(input.devices)) =>
       /\ DOMAIN am.Services = UNION {DOMAIN am.Devices[k].Services : k \in DOMAIN am.Devices}
       /\ \A k \in DOMAIN am.Devices :
             \A id \in DOMAIN am.Devices[k].Services :
                am.Services[id] = am.Devices[k].Services[id]

\* C36, witness: a registry is built with two devices, one with two adapters
\* and one with one, and the lookup table has the three identifiers
C36_ThreeAdapters ==
    /\ pc = "built"
    /\ DistinctAcrossDevices(input.devices)
    /\ Cardinality(DOMAIN am.Devices) = 2
    /\ \E k \in DOMAIN am.Devices : Cardinality(DOMAIN am.Devices[k].Services) = 2
    /\ Cardinality(DOMAIN am.Services) = 3

\* the snapshot of the switch ref carries a button event that the press
\* configuration of its model maps
SnapshotPress(ref) ==
    LET sub == input.devices[ref[1]].Subdevices[ref[2]]
    IN /\ "buttonevent" \in sub.State.has
       /\ MappedPress(ref, sub.State.buttonevent) # {}

\* C37: as long as no update has been processed, no button endpoint of a
\* switch of the registry shows a press, whatever button event the state of
\* the snapshot carries.
C37_NoPressAtConstruction ==
    processed = <<>> =>
       \A ref \in DOMAIN heap :
          heap[ref].type = "SwitchDevice" =>
             \A b \in DOMAIN heap[ref].services :
                heap[ref].services[b].ProgrammableSwitchEvent = <<>>

\* C37, witness: a registry is built and serving with a switch whose
\* snapshot carries a button event its press configuration maps; no update
\* has been processed and its buttons show no press
C37_MappedSnapshotCode ==
    /\ pc = "serving"
    /\ processed = <<>>
    /\ \E ref \in DOMAIN heap :
          /\ heap[ref].type = "SwitchDevice"
          /\ SnapshotPress(ref)
          /\ DOMAIN heap[ref].services # {}
          /\ \A b \in DOMAIN heap[ref].services :
                heap[ref].services[b].ProgrammableSwitchEvent = <<>>

\* C38: under every press configuration the directory can give, the build
\* of the registry of a snapshot with a switch and a light completes: the
\* switch is built or left out, and the light beside it is registered.
C38_ConfigurationTolerated ==
    [][(pc = "start" /\ pc' # "start") =>
          /\ pc' = "built"
          /\ "L1" \in DOMAIN am'.Services
      ]_vars

\* C39: once a SIGINT or SIGTERM has been delivered after DefaultContext
\* returned, the context is eventually cancelled, unless the signal ended
\* the process by its default action.
C39_SignalCancels ==
    (conv.raw[1].delivered # <<>>) ~> (conv.raw[1].cancelled \/ pc = "killed")

\* C10: NewAccessoryManager completes for every snapshot: the process does
\* not end in it, the registry holds devices of the snapshot only, each with
\* an adapter, and GetAccessories gives one accessory for each of them.
C10_BuildCompletes ==
    /\ pc # "crashed"
    /\ \A id \in DOMAIN am.Devices :
          /\ \E i \in DOMAIN input.devices : input.devices[i].UniqueId = id
          /\ DOMAIN am.Devices[id].Services # {}
    /\ pc = "serving" =>
          /\ Len(accessories) = Cardinality(DOMAIN am.Devices)
          /\ \A id \in DOMAIN am.Devices :
                \E i \in DOMAIN accessories : accessories[i] = am.Devices[id].Accessory

====
